---- MODULE Spec2Model ----
(***************************************************************************)
(* A model of the image-generation proxy (server.js, main.go): the         *)
(* retrying invoker callAPIWithRetry of both implementations, the task     *)
(* executor processGeneration of server.js, its file-backed task store     *)
(* (storeResult / getResult, with the 30-minute unlink timers) and the     *)
(* HTTP handlers that start tasks and read their status.                   *)
(*                                                                         *)
(* Texts (error messages, provider bodies) are sequences of tokens, so     *)
(* that String.includes and message construction are computed, not         *)
(* assumed.  Time is in milliseconds.                                      *)
(***************************************************************************)
EXTENDS Integers, Sequences, FiniteSets, TLC

VARIABLES
    call,        \* the frame of one callAPIWithRetry call, run on its own
    log,         \* history of that call: one entry per attempt
    pc,          \* per request slot: where its handler / task is
    req,         \* per request slot: the request body received
    data,        \* per slot: the parsed provider response (processGeneration's data)
    pending,     \* per slot: the record the storeResult call in progress writes
    http,        \* per request slot: the HTTP response sent to the client
    store,       \* the task store: key -> record, Partial or Absent
    timers,      \* pending unlink timers: set of [key, deadline]
    now,         \* the clock, ms
    activeTasks, \* the activeTasks counter
    wlog,        \* history: per slot, the storeResult calls its execution completed
    sent,        \* per slot: the request processGeneration sends to the provider
    server,      \* which implementation runs: "js" (server.js) or "go" (main.go)
    polled,      \* the answer of the status read made in the last step, if any
    callbacks    \* main.go, per slot: the callback requests sent, with their outcomes

vars == <<call, log, pc, req, data, pending, http, store, timers, now,
          activeTasks, wlog, sent, server, polled, callbacks>>

invokerVars == <<call, log>>
serverVars == <<pc, req, data, pending, http, store, timers, now, activeTasks,
                wlog, sent, server, polled, callbacks>>

----------------------------------------------------------------------------
(* Bounds of the model *)

MaxReqs == 2        \* request slots (requests received in one run)
MaxBudget == 5      \* largest maxRetries passed to server.js callAPIWithRetry
MaxSkew == 1        \* ticks of the clock within one retention period
TickMs == 1         \* length of a small clock step, ms

(* Program constants *)

MaxRetries == 3             \* main.go: MaxRetries
JsDefaultRetries == 3       \* server.js: maxRetries = 3
BackoffBaseMs == 1000       \* server.js: 1000 * Math.pow(2, attempt)
BackoffCapMs == 10000       \* server.js: Math.min(..., 10000)

Slots == 1..MaxReqs

Min(a, b) == IF a < b THEN a ELSE b

RECURSIVE Pow2(_)
Pow2(n) == IF n = 0 THEN 1 ELSE 2 * Pow2(n - 1)

(* haystack.includes(needle), token-wise *)
Includes(hay, needle) ==
    \E k \in 0..(Len(hay) - Len(needle)) :
        \A j \in 1..Len(needle) : hay[k + j] = needle[j]

----------------------------------------------------------------------------
(* Provider responses *)

NoError == <<"<null>">>

Statuses == {200, 304, 400, 429, 500, 503}

\* response.status as text, its hundreds digit apart
StatusTokens(s) == <<ToString(s \div 100), ToString(s % 100)>>

StatusClass(s) ==
    IF s >= 200 /\ s < 300 THEN "2xx"
    ELSE IF s >= 400 /\ s < 500 THEN "4xx"
    ELSE IF s >= 500 THEN "5xx"
    ELSE "3xx"

\* the parsed JSON of a body, as far as the extraction looks at it:
\* "chat"   {choices: [{message: {content}}]}
\* "gemini" {candidates: [{content: {parts}}]}
\* "image_url" {image_url: content}, an object with only this top-level field
\* "object" an object with none of these fields; "null" the JSON value null
Json(shape, content, parts) ==
    [shape |-> shape, content |-> content, parts |-> parts]
NoData == Json("object", <<>>, <<>>)
NullData == Json("null", <<>>, <<>>)

\* one part of a Gemini candidate: inlineData {mimeType, data} and / or text
InlinePart(mime, b64) == [mimeType |-> mime, data |-> b64, text |-> <<>>]
TextPart(text) == [mimeType |-> "", data |-> "", text |-> text]

\* a response body: its raw text, whether JSON.parse accepts it, its "error"
\* field, its parsed value, and whether reading it from the socket fails
Body(text, isJson, error, json, readFails) ==
    [text |-> text, isJson |-> isJson, error |-> error, data |-> json,
     readFails |-> readFails]

EmptyBody == Body(<<>>, FALSE, <<>>, NoData, FALSE)
TextBody == Body(<<"Bad", "Gateway">>, FALSE, <<>>, NoData, FALSE)
JsonErrBody ==
    Body(<<"{", "error", ":", "quota", "}">>, TRUE, <<"quota">>, NoData, FALSE)
BodyReadFails == Body(<<>>, FALSE, <<>>, NoData, TRUE)

UrlText ==
    <<"here", " ", "https://", "cdn.example.com/a", ".png", " ", "more">>
\* the two marker phrases of the provider's failure text, U+751F U+6210 U+5931
\* U+8D25 ("generation failed") and U+5931 U+8D25 U+539F U+56E0 ("failure
\* reason"), each one token
FailMarker == "<generation-failed>"
ReasonMarker == "<failure-reason>"
FailText == <<FailMarker, " ", ReasonMarker, "input_moderation">>
PlainText == <<"no", " ", "image">>

ChatUrlBody == Body(<<"{chat-url}">>, TRUE, <<>>, Json("chat", UrlText, <<>>), FALSE)
ChatFailBody == Body(<<"{chat-fail}">>, TRUE, <<>>, Json("chat", FailText, <<>>), FALSE)
ChatPlainBody == Body(<<"{chat-plain}">>, TRUE, <<>>, Json("chat", PlainText, <<>>), FALSE)
GeminiInlineBody ==
    Body(<<"{gemini-inline}">>, TRUE, <<>>,
         Json("gemini", <<>>, <<TextPart(PlainText), InlinePart("image/png", "QUJD")>>),
         FALSE)
NullBody == Body(<<"null">>, TRUE, <<>>, NullData, FALSE)

ErrorBodies == {EmptyBody, TextBody, JsonErrBody}
OkBodies == {ChatUrlBody, ChatFailBody, ChatPlainBody, GeminiInlineBody,
             NullBody, TextBody}

Http(status, body) == [kind |-> "http", status |-> status, body |-> body]
NetErr == [kind |-> "neterr", status |-> 0, body |-> EmptyBody]
Timeout == [kind |-> "timeout", status |-> 0, body |-> EmptyBody]

\* what one outbound request can end with
Responses ==
    {Http(s, b) : s \in Statuses, b \in ErrorBodies \cup {BodyReadFails}}
        \cup {NetErr, Timeout}

----------------------------------------------------------------------------
(* The frame of a callAPIWithRetry call *)

NoResult == [ok |-> FALSE, body |-> EmptyBody, error |-> NoError]
Returned(body) == [ok |-> TRUE, body |-> body, error |-> NoError]
Threw(err) == [ok |-> FALSE, body |-> EmptyBody, error |-> err]

\* state: "attempt" (at the top of the loop, about to send), "sleeping"
\* (in the backoff wait), "returned", "threw"
Frame(impl, max) ==
    [impl |-> impl, max |-> max, attempt |-> 1, lastError |-> NoError,
     state |-> "attempt", sleepMs |-> 0, result |-> NoResult]

----------------------------------------------------------------------------
(* server.js callAPIWithRetry *)

JsOk(status) == status >= 200 /\ status <= 299

\* the message of the Error built from a non-ok response
JsErrorMessage(status, body) ==
    LET fallback == <<"API", "error:">> \o StatusTokens(status)
        parsed == IF body.error # <<>> THEN body.error ELSE body.text
        msg == IF body.isJson THEN parsed
               ELSE IF body.text # <<>> THEN body.text ELSE fallback
    IN  IF body.text # <<>> /\ body.text # msg
        THEN msg \o <<"Full", "Response:">> \o body.text
        ELSE msg

JsTimeoutMessage == <<"Request", "timeout", "after", "4", "minutes">>
JsFetchFailed == <<"fetch", "failed">>
JsBodyFailed == <<"terminated">>
JsGenericFailure == <<"API", "call", "failed", "after", "all", "retries">>

\* (mutant) the exponent counted from 0
JsBackoffFromZero(n) == Min(BackoffBaseMs * Pow2(n - 1), BackoffCapMs)

\* Math.min(1000 * Math.pow(2, attempt), 10000)
JsBackoff(n) == Min(BackoffBaseMs * Pow2(n), BackoffCapMs)

\* (mutant) one iteration too many
JsLoopCondOffByOne(n, max) == n <= max + 1

\* the for-loop condition
JsLoopCond(n, max) == n <= max

\* the catch block: wait before the next attempt
JsCatchWaits(n, max) == n < max

\* (mutant) the last retry after a 5xx is sent without a wait
JsHttpErrorWaitsEarly(status, n, max) ==
    IF status >= 400 /\ status < 500
    THEN JsCatchWaits(n, max)
    ELSE n < max - 1

\* the try block after a non-ok response: wait before the next attempt.
\* "throw lastError" for a 4xx is inside the try block, so the catch block of
\* the same iteration receives it and decides
JsHttpErrorWaits(status, n, max) ==
    IF status >= 400 /\ status < 500
    THEN JsCatchWaits(n, max)
    ELSE n < max

\* (mutant) the AbortError is kept as thrown by fetch
JsLastErrorRaw(r, old) ==
    CASE r.kind = "timeout" -> <<"This", "operation", "was", "aborted">>
      [] r.kind = "neterr" -> JsFetchFailed
      [] r.kind = "http" /\ JsOk(r.status) -> old
      [] r.kind = "http" /\ ~JsOk(r.status) /\ r.body.readFails -> JsBodyFailed
      [] OTHER -> JsErrorMessage(r.status, r.body)

\* what one attempt leaves in lastError (unchanged by a 2xx)
JsLastError(r, old) ==
    CASE r.kind = "timeout" -> JsTimeoutMessage
      [] r.kind = "neterr" -> JsFetchFailed
      [] r.kind = "http" /\ JsOk(r.status) -> old
      [] r.kind = "http" /\ ~JsOk(r.status) /\ r.body.readFails -> JsBodyFailed
      [] OTHER -> JsErrorMessage(r.status, r.body)

JsWaits(r, n, max) ==
    CASE r.kind # "http" -> JsCatchWaits(n, max)
      [] r.kind = "http" /\ JsOk(r.status) -> FALSE
      [] r.kind = "http" /\ ~JsOk(r.status) /\ r.body.readFails ->
            JsCatchWaits(n, max)
      [] OTHER -> JsHttpErrorWaits(r.status, n, max)

JsResponseClass(r) ==
    IF r.kind # "http" THEN r.kind
    ELSE IF JsOk(r.status) THEN "2xx"
    ELSE IF r.body.readFails THEN "bodyerr"
    ELSE StatusClass(r.status)

\* attempt++, the loop condition, and the throw after the loop
JsNext(f) ==
    LET g == [f EXCEPT !.attempt = f.attempt + 1, !.sleepMs = 0] IN
    IF JsLoopCond(g.attempt, g.max)
    THEN [g EXCEPT !.state = "attempt"]
    ELSE [g EXCEPT !.state = "threw",
                   !.result = Threw(IF g.lastError # NoError THEN g.lastError
                                    ELSE JsGenericFailure)]

\* one iteration of the loop: the fetch, its classification, and the code up
\* to the next suspension point (the wait) or to the return / throw
JsStep(f, r) ==
    IF r.kind = "http" /\ JsOk(r.status)
    THEN [f EXCEPT !.state = "returned", !.result = Returned(r.body)]
    ELSE LET g == [f EXCEPT !.lastError = JsLastError(r, f.lastError)] IN
         IF JsWaits(r, f.attempt, f.max)
         THEN [g EXCEPT !.state = "sleeping", !.sleepMs = JsBackoff(f.attempt)]
         ELSE JsNext(g)

\* the wait is over: "continue" / the end of the catch block
JsWake(f) == JsNext(f)

----------------------------------------------------------------------------
(* main.go callAPIWithRetry *)

GoTimeoutMessage == <<"request", "timeout", "after", "4", "minutes">>
GoRequestFailed == <<"request", "failed:", "connection", "reset">>
GoReadFailed == <<"failed", "to", "read", "response:", "unexpected", "EOF">>

\* fmt.Sprintf("API returned error %d: %s", resp.StatusCode, string(body))
GoErrorMessage(status, body) ==
    <<"API", "returned", "error">> \o StatusTokens(status) \o <<":">> \o body.text

\* fmt.Errorf("all retry attempts failed: %w", lastError)
GoExhausted(err) == <<"all", "retry", "attempts", "failed:">> \o err

\* time.Duration(attempt) * 2 * time.Second, in ms
GoBackoff(n) == n * 2 * 1000

\* the for-loop condition
GoLoopCond(n) == n <= MaxRetries

\* "if attempt < MaxRetries": sleep, then continue
GoWaits(n) == n < MaxRetries

\* resp.StatusCode >= 400
GoIsError(status) == status >= 400

\* (mutant) no status is a client error: a 4xx is handled as a 5xx is
GoNoClientError(status) == FALSE
\* resp.StatusCode >= 400 && resp.StatusCode < 500
GoIsClientError(status) == status >= 400 /\ status < 500

GoResponseClass(r) ==
    IF r.kind # "http" THEN r.kind
    ELSE IF r.body.readFails THEN "bodyerr"
    ELSE StatusClass(r.status)

\* attempt++, the loop condition, and the return after the loop
GoNext(f) ==
    LET g == [f EXCEPT !.attempt = f.attempt + 1, !.sleepMs = 0] IN
    IF GoLoopCond(g.attempt)
    THEN [g EXCEPT !.state = "attempt"]
    ELSE [g EXCEPT !.state = "threw", !.result = Threw(GoExhausted(g.lastError))]

\* the retry branch shared by the two "if attempt < MaxRetries" blocks of the
\* error paths: sleep and continue
GoSleep(f) ==
    [f EXCEPT !.state = "sleeping", !.sleepMs = GoBackoff(f.attempt)]

\* one iteration of the loop, up to the sleep, the return or the next iteration
GoStep(f, r) ==
    CASE r.kind # "http" ->
           \* httpClient.Do failed: sleep and continue, or just continue
           LET g == [f EXCEPT !.lastError = IF r.kind = "timeout"
                                            THEN GoTimeoutMessage
                                            ELSE GoRequestFailed]
           IN  IF GoWaits(f.attempt) THEN GoSleep(g) ELSE GoNext(g)
      [] r.kind = "http" /\ r.body.readFails ->
           \* io.ReadAll failed: continue, without a sleep
           GoNext([f EXCEPT !.lastError = GoReadFailed])
      [] r.kind = "http" /\ ~r.body.readFails /\ GoIsError(r.status) ->
           IF GoIsClientError(r.status)
           THEN [f EXCEPT !.state = "threw",
                          !.result = Threw(GoErrorMessage(r.status, r.body))]
           ELSE LET g == [f EXCEPT !.lastError = GoErrorMessage(r.status, r.body)]
                IN  IF GoWaits(f.attempt)
                    THEN GoSleep(g)
                    ELSE \* leaves the if block: "return json.RawMessage(body), nil"
                         [g EXCEPT !.state = "returned", !.result = Returned(r.body)]
      [] OTHER ->
           [f EXCEPT !.state = "returned", !.result = Returned(r.body)]

\* time.Sleep is over: continue
GoWake(f) == GoNext(f)

----------------------------------------------------------------------------
(* The server's state before any request *)

TaskIds == {"t1", "t2"}
\* a request without taskId: the template `${taskId}.json` names the file
\* "undefined.json"
NoId == "undefined"
Keys == TaskIds \cup {NoId}

\* the imageUrls field of a request body: not given (undefined / nil), or a list
NoList == [given |-> FALSE, list |-> <<>>]
List(l) == [given |-> TRUE, list |-> l]

\* a request body, as far as the handlers and processGeneration use it; the
\* prompt and the imageSize are the same in every request
NoReq == [endpoint |-> "none", apiKey |-> FALSE, taskId |-> NoId, model |-> "none",
          imageUrl |-> "", imageUrls |-> NoList, callbackUrl |-> ""]
Prompt == "a red fox"
ImageSize == "16:9"
NoMsg == <<>>

\* a stored record {success, imageUrl?, error?, rawResponse?}; kind "absent":
\* no file; "partial": the file is open for writing, its content not valid JSON
Absent == [kind |-> "absent", success |-> FALSE, imageUrl |-> NoMsg,
           error |-> NoMsg, raw |-> FALSE]
Partial == [Absent EXCEPT !.kind = "partial"]
Record(success, imageUrl, error, raw) ==
    [kind |-> "record", success |-> success, imageUrl |-> imageUrl,
     error |-> error, raw |-> raw]

NoHttp == [status |-> 0, success |-> FALSE, taskId |-> NoId, imageUrl |-> NoMsg,
           error |-> NoMsg]

\* the answer to a status read: HTTP code and the fields of the JSON body
PollReply(key, code, status, success, imageUrl, error) ==
    [key |-> key, code |-> code, status |-> status, success |-> success,
     imageUrl |-> imageUrl, error |-> error]
NoPoll == PollReply(NoId, 0, "", FALSE, NoMsg, NoMsg)

\* a step that is not a status read, of either server
NoStatusRead == server' = server /\ polled' = NoPoll

\* the provider endpoints
ChatCompletions == "https://yunwu.zeabur.app/v1/chat/completions"
GenerateContent ==
    "https://yunwu.zeabur.app/v1beta/models/gemini-2.5-flash-image-preview:generateContent"

\* one element of a content array or of parts: {type: 'text', text},
\* {type: 'image_url', image_url: {url}}, {text}, {inline_data: {mime_type, data}}
TextItem(text) == [type |-> "text", value |-> text, mime |-> ""]
ImageUrlItem(url) == [type |-> "image_url", value |-> url, mime |-> ""]
InlineItem(mime, b64) == [type |-> "inline_data", value |-> b64, mime |-> mime]
\* the content of the one message (a string, or an array), or the parts of the
\* one element of contents
StringContent(text) == [shape |-> "string", text |-> text, items |-> <<>>]
ArrayContent(items) == [shape |-> "array", text |-> "", items |-> items]
PartsContent(items) == [shape |-> "parts", text |-> "", items |-> items]
NoContent == [shape |-> "none", text |-> "", items |-> <<>>]

\* an outbound request: the URL, the format of the body ("chat": {model,
\* messages}, "gemini": {contents}), the body's model field ("" for none) and
\* the content
Outbound(url, format, model, content) ==
    [url |-> url, format |-> format, model |-> model, content |-> content]
NoSent == Outbound("", "none", "", NoContent)

InitServer ==
    /\ server = "js"
    /\ callbacks = [i \in Slots |-> <<>>]
    /\ sent = [i \in Slots |-> NoSent]
    /\ polled = NoPoll
    /\ pc = [i \in Slots |-> "idle"]
    /\ req = [i \in Slots |-> NoReq]
    /\ data = [i \in Slots |-> NoData]
    /\ pending = [i \in Slots |-> Absent]
    /\ http = [i \in Slots |-> NoHttp]
    /\ store = [k \in Keys |-> Absent]
    /\ timers = {}
    /\ now = 0
    /\ activeTasks = 0
    /\ wlog = [i \in Slots |-> <<>>]

----------------------------------------------------------------------------
(* One callAPIWithRetry call on its own, against every sequence of provider  *)
(* responses: server.js with any attempt budget, main.go with MaxRetries.    *)

NoCall == [Frame("none", 0) EXCEPT !.state = "none"]

LogEntry(n, class, sleep) == [n |-> n, class |-> class, sleep |-> sleep]

JsInvokerAttempt(r) ==
    /\ call.impl = "js"
    /\ call.state = "attempt"
    /\ call' = JsStep(call, r)
    /\ log' = Append(log, LogEntry(call.attempt, JsResponseClass(r), call'.sleepMs))
    /\ UNCHANGED serverVars

JsInvokerWake ==
    /\ call.impl = "js"
    /\ call.state = "sleeping"
    /\ call' = JsWake(call)
    /\ UNCHANGED <<log, serverVars>>

GoInvokerAttempt(r) ==
    /\ call.impl = "go"
    /\ call.state = "attempt"
    /\ call' = GoStep(call, r)
    /\ log' = Append(log, LogEntry(call.attempt, GoResponseClass(r), call'.sleepMs))
    /\ UNCHANGED serverVars

GoInvokerWake ==
    /\ call.impl = "go"
    /\ call.state = "sleeping"
    /\ call' = GoWake(call)
    /\ UNCHANGED <<log, serverVars>>

InitInvoker ==
    /\ call \in {Frame("js", m) : m \in 1..MaxBudget} \cup {Frame("go", MaxRetries)}
    /\ log = <<>>
    /\ InitServer

NextInvoker ==
    \/ \E r \in Responses : JsInvokerAttempt(r)
    \/ JsInvokerWake
    \/ \E r \in Responses : GoInvokerAttempt(r)
    \/ GoInvokerWake

SpecInvoker == InitInvoker /\ [][NextInvoker]_vars

----------------------------------------------------------------------------
(* Claims about callAPIWithRetry, checked under SpecInvoker *)

CallEnded == call.state \in {"returned", "threw"}
Classes == [k \in 1..Len(log) |-> log[k].class]

\* C1: in server.js an attempt that receives an HTTP 4xx ends the call: it is
\* the last attempt, no backoff sleep follows it, and the call has failed.
C1_Js4xxIsTerminal ==
    call.impl = "js" =>
        \A k \in 1..Len(log) :
            log[k].class = "4xx" =>
                /\ k = Len(log)
                /\ log[k].sleep = 0
                /\ call.state = "threw"

\* C4: in main.go, when all MaxRetries attempts ended in a retryable failure
\* (5xx, transport failure, timeout), the call returns an error, not a body.
C4_GoExhaustionIsError ==
    ( /\ call.impl = "go"
      /\ Len(log) = MaxRetries
      /\ \A k \in 1..Len(log) :
            log[k].class \in {"5xx", "neterr", "timeout", "bodyerr"} )
    => /\ call.state = "threw"
       /\ ~call.result.ok

\* C6: the response sequence [5xx, 5xx, 2xx] ends in success after exactly 3
\* attempts with a backoff sleep after each 5xx and none after the 2xx; and a
\* 2xx on any attempt is the last log entry, returns its body and is followed
\* by no sleep (server.js and main.go).
C6_SuccessEndsTheCall ==
    /\ Classes = <<"5xx", "5xx", "2xx">> =>
          /\ call.state = "returned" /\ call.result.ok
          /\ log[1].sleep > 0 /\ log[2].sleep > 0 /\ log[3].sleep = 0
          /\ \A k \in 1..3 : log[k].n = k
    /\ \A k \in 1..Len(log) :
          log[k].class = "2xx" =>
              /\ k = Len(log)
              /\ log[k].sleep = 0
              /\ call.state = "returned" /\ call.result.ok

C6_Witness ==
    /\ Classes = <<"5xx", "5xx", "2xx">>
    /\ call.state = "returned"
    /\ log[1].sleep = 2000 /\ log[2].sleep = 4000

\* C7: with the budget of 3 (server.js default, main.go MaxRetries) a call
\* sends at most 3 requests, is over once the third has been answered, and
\* ends with a body or with an error; until then its next step is enabled.
C7_AtMostThreeRequests ==
    (call.impl = "go" \/ call.max = JsDefaultRetries) =>
        /\ Len(log) <= 3
        /\ call.attempt <= 4
        /\ Len(log) = 3 => CallEnded
        /\ call.state = "returned" => call.result.ok
        /\ call.state = "threw" => ~call.result.ok /\ call.result.error # NoError
        /\ ~CallEnded => ENABLED NextInvoker

C7_Witness ==
    /\ call.impl = "js" /\ call.max = JsDefaultRetries
    /\ Len(log) = 3
    /\ call.state = "threw"

\* C8: in server.js a timeout on a non-final attempt is followed by one
\* backoff sleep and a retry, as a 5xx on that attempt is, and three timeouts
\* in a row end the call of budget 3 with an error whose message contains
\* "timeout".
C8_JsTimeoutIsRetried ==
    call.impl = "js" =>
        /\ \A k \in 1..Len(log) :
              (log[k].class \in {"timeout", "5xx"} /\ log[k].n < call.max) =>
                  /\ log[k].sleep > 0
                  /\ \/ k < Len(log) /\ log[k + 1].n = log[k].n + 1
                     \/ k = Len(log) /\ call.state = "sleeping"
                     \/ /\ k = Len(log) /\ call.state = "attempt"
                        /\ call.attempt = log[k].n + 1
        /\ (call.max = 3 /\ Classes = <<"timeout", "timeout", "timeout">>) =>
              /\ call.state = "threw"
              /\ Includes(call.result.error, <<"timeout">>)

C8_Witness ==
    /\ call.impl = "js" /\ call.max = 3
    /\ Classes = <<"timeout", "timeout", "timeout">>
    /\ call.state = "threw"
    /\ log[1].sleep > 0 /\ log[2].sleep > 0

\* C9: every backoff sleep, after failed attempt n, lasts
\* min(1000 * 2^n, 10000) ms, and attempt n is the n-th request of the call
\* (server.js for every budget; main.go, where only n = 1 and n = 2 sleep).
C9_BackoffValue ==
    \A k \in 1..Len(log) :
        /\ log[k].n = k
        /\ log[k].sleep # 0 =>
              /\ log[k].sleep = (IF 1000 * (2 ^ k) < 10000 THEN 1000 * (2 ^ k)
                                 ELSE 10000)
              /\ call.impl = "go" => k \in {1, 2}

C9_Witness ==
    /\ call.impl = "js"
    /\ Len(log) >= 4
    /\ log[3].sleep = 8000
    /\ log[4].sleep = 10000

----------------------------------------------------------------------------
(* server.js: extraction of the image URL from the provider's response *)

\* characters that end the [^\s\]}"']+ run of the URL pattern
JsTerminators == {" ", "\n", "]", "}", "\"", "'"}
Schemes == {"https://", "http://"}
ImageExts == {".jpg", ".jpeg", ".png", ".webp", ".gif"}

SetMin(S) == CHOOSE x \in S : \A y \in S : x <= y
SetMax(S) == CHOOSE x \in S : \A y \in S : x >= y

\* the last position of the run of non-terminators that follows position p
JsRunEnd(text, p) ==
    SetMax({q \in p..Len(text) : \A j \in (p + 1)..q : text[j] \notin JsTerminators})

\* where a match that starts with the scheme at p can end: an image extension
\* in the run, with at least one character between scheme and extension
JsMatchEnds(text, p) ==
    {e \in (p + 2)..JsRunEnd(text, p) : text[e] \in ImageExts}

\* content.match(/https?:\/\/[^\s\]}"']+\.(jpg|jpeg|png|webp|gif)/i): the
\* leftmost match, the longest at that position; NoMsg for null
JsUrlMatch(text) ==
    LET starts == {p \in 1..Len(text) :
                      text[p] \in Schemes /\ JsMatchEnds(text, p) # {}}
    IN  IF starts = {} THEN NoMsg
        ELSE SubSeq(text, SetMin(starts), SetMax(JsMatchEnds(text, SetMin(starts))))

\* `data:${mimeType};base64,${base64Data}`
DataUrl(mime, b64) == <<"data:", mime, ";base64,", b64>>

\* the loop over candidate.content.parts, with imageUrlResult so far
RECURSIVE JsGeminiParts(_, _)
JsGeminiParts(parts, found) ==
    IF parts = <<>> THEN found
    ELSE LET part == Head(parts) IN
         IF part.data # "" /\ part.mimeType # ""
         THEN DataUrl(part.mimeType, part.data)
         ELSE IF part.text # <<>> /\ JsUrlMatch(part.text) # NoMsg /\ found = NoMsg
         THEN JsGeminiParts(Tail(parts), JsUrlMatch(part.text))
         ELSE JsGeminiParts(Tail(parts), found)

\* reading data.choices / data.candidates throws a TypeError when data is null
JsExtractThrows(d) == d.shape = "null"
JsTypeError == <<"Cannot", "read", "properties", "of", "null">>
JsSyntaxError == <<"Unexpected", "token">>

\* (mutant) the Gemini loop stops at the first part that yields anything
JsImageUrlFirstPart(model, d) ==
    IF model = "sora_image"
    THEN IF d.shape = "chat" THEN JsUrlMatch(d.content) ELSE NoMsg
    ELSE LET yields == {p \in 1..Len(d.parts) :
                           \/ d.parts[p].data # "" /\ d.parts[p].mimeType # ""
                           \/ JsUrlMatch(d.parts[p].text) # NoMsg}
             first == d.parts[SetMin(yields)]
         IN  IF d.shape # "gemini" \/ yields = {} THEN NoMsg
             ELSE IF first.data # "" /\ first.mimeType # ""
             THEN DataUrl(first.mimeType, first.data)
             ELSE JsUrlMatch(first.text)
\* imageUrlResult (NoMsg for null)
JsImageUrl(model, d) ==
    IF model = "sora_image"
    THEN IF d.shape = "chat" THEN JsUrlMatch(d.content) ELSE NoMsg
    ELSE IF d.shape = "gemini" THEN JsGeminiParts(d.parts, NoMsg) ELSE NoMsg

JsNoImage == <<"No", "image", "URL", "in", "response">>

\* errorMessage of the failure branch
JsFailureMessage(d) ==
    IF d.shape = "chat" /\ Includes(d.content, <<FailMarker>>)
    THEN d.content
    ELSE JsNoImage

\* the record of the terminal storeResult call after a successful extraction run
JsTerminalRecord(model, d) ==
    IF JsImageUrl(model, d) # NoMsg
    THEN Record(TRUE, JsImageUrl(model, d), NoMsg, TRUE)
    ELSE Record(FALSE, NoMsg, JsFailureMessage(d), TRUE)

\* the debug snapshot: {success: true, rawResponse: data}
JsSnapshotRecord == Record(TRUE, NoMsg, NoMsg, TRUE)

\* the record the catch block stores
JsCatchRecord(err) == Record(FALSE, NoMsg, err, FALSE)

----------------------------------------------------------------------------
(* server.js: the task store *)

RetentionMs == 30 * 60 * 1000

\* a taskId with a "." path segment, and the file name the store gives it
DotId == "./t1"
\* path.join(STORAGE_DIR, `${taskId}.json`), as the name of the file in the
\* storage directory: path.join normalises its result, so "." segments of the
\* taskId are dropped ("./t1.json" is the file "t1.json")
JsFile(taskId) == IF taskId = DotId THEN "t1" ELSE taskId

\* getResult: the parsed file, or null (no file, or content that does not parse)
GetResult(k) ==
    IF store[JsFile(k)].kind = "record" THEN store[JsFile(k)] ELSE Absent

\* (mutant) a missing file is reported as a failed task
StatusBodyNullFails(result) ==
    [status |-> "failed", success |-> FALSE, imageUrl |-> NoMsg, error |-> NoMsg]
\* the body GET /api/status/:taskId answers with, from what getResult returned
StatusBody(result) ==
    IF result.kind # "record"
    THEN [status |-> "processing", success |-> FALSE, imageUrl |-> NoMsg,
          error |-> NoMsg]
    ELSE IF result.success
    THEN [status |-> "completed", success |-> TRUE, imageUrl |-> result.imageUrl,
          error |-> NoMsg]
    ELSE [status |-> "failed", success |-> FALSE, imageUrl |-> NoMsg,
          error |-> result.error]

\* the response of GET /api/status/:taskId in the current state
StatusResponse(k) == StatusBody(GetResult(k))

\* storeResult, first half: fs.writeFile has opened (created or truncated) the
\* file of key k
StoreOpen(k) == [store EXCEPT ![JsFile(k)] = Partial]

\* storeResult, second half: the content is written, then the unlink timer is
\* set. A file unlinked while this write had it open is not at the path any more:
\* the content goes to the unlinked file.
StoreWritten(i, k) ==
    IF pending[i].kind = "unlinked" THEN store
    ELSE [store EXCEPT ![JsFile(k)] = pending[i]]

\* setTimeout(unlink, 30 * 60 * 1000)
UnlinkTimer(k) == [key |-> JsFile(k), deadline |-> now + RetentionMs]

WriteEntry(i, kind) ==
    [kind |-> kind, at |-> now, rec |-> [pending[i] EXCEPT !.kind = "record"],
     lost |-> pending[i].kind = "unlinked"]

----------------------------------------------------------------------------
(* server.js: the endpoints and processGeneration *)

Models == {"sora_image", "gemini"}
Key(i) == req[i].taskId
\* a variant that leaves the counter as it is when an execution ends
TaskEndsUncounted(n) == n
\* activeTasks-- in finally; defer atomic.AddInt32(&activeTasks, -1)
TaskEnds(n) == n - 1

\* a variant in which the catch block finds no taskId to store under
JsNoTaskId(taskId) == FALSE
\* if (taskId)
Truthy(taskId) == taskId # NoId

ApiKeyRequired == <<"API", "key", "required">>
\* the message of the ReferenceError thrown by reading an undeclared name
NotDefined(name) == <<name, "is", "not", "defined">>
Reply(status, success, taskId, imageUrl, error) ==
    [status |-> status, success |-> success, taskId |-> taskId,
     imageUrl |-> imageUrl, error |-> error]

RequestBodies ==
    [endpoint : {"async", "sync"}, apiKey : BOOLEAN, taskId : Keys, model : Models,
     imageUrl : {""}, imageUrls : {NoList}, callbackUrl : {""}]

\* of a request the handler answers itself: the endpoint and whether the body
\* had an apiKey (no other field of the body is used)
Received(body) == [NoReq EXCEPT !.endpoint = body.endpoint, !.apiKey = body.apiKey]

\* (mutant) no request is rejected for its missing apiKey
KeyMissingNever(body) == FALSE
\* if (!apiKey) / if req.APIKey == ""
KeyMissing(body) == ~body.apiKey

\* (mutant) nothing is answered when the request is accepted
AsyncDeferred(taskId) == NoHttp
\* the answer of the async endpoint: {success: true, taskId, message}
AsyncAccepted(taskId) == Reply(200, TRUE, taskId, NoMsg, NoMsg)

\* request slots are taken in order
Free(i) == pc[i] = "idle" /\ \A j \in Slots : j < i => pc[j] # "idle"

\* POST /api/generate/async
JsAsyncRequest(i, body) ==
    /\ server = "js"
    /\ Free(i)
    /\ body.endpoint = "async"
    /\ IF KeyMissing(body)
       THEN /\ http' = [http EXCEPT ![i] = Reply(401, FALSE, NoId, NoMsg, ApiKeyRequired)]
            /\ req' = [req EXCEPT ![i] = Received(body)]
            /\ pc' = [pc EXCEPT ![i] = "closed"]
       ELSE /\ http' = [http EXCEPT ![i] = AsyncAccepted(body.taskId)]
            /\ req' = [req EXCEPT ![i] = body]
            /\ pc' = [pc EXCEPT ![i] = "queued"]
    /\ UNCHANGED <<data, pending, store, timers, now, activeTasks, wlog>>
    /\ UNCHANGED invokerVars
    /\ UNCHANGED callbacks
    /\ NoStatusRead
    /\ UNCHANGED sent

\* the status the catch block of POST /api/generate answers with
JsSyncErrorStatus(msg) ==
    IF Includes(msg, <<"timeout">>) THEN 504
    ELSE IF Includes(msg, <<"API", "error:", "4">>) THEN 400
    ELSE 500

\* POST /api/generate: with an apiKey, line 616 reads imageUrls, which the
\* handler does not declare; the ReferenceError goes to the catch block
JsSyncRequest(i, body) ==
    /\ server = "js"
    /\ Free(i)
    /\ body.endpoint = "sync"
    /\ req' = [req EXCEPT ![i] = Received(body)]
    /\ http' = [http EXCEPT ![i] =
                  IF KeyMissing(body)
                  THEN Reply(401, FALSE, NoId, NoMsg, ApiKeyRequired)
                  ELSE Reply(JsSyncErrorStatus(NotDefined("imageUrls")), FALSE,
                             NoId, NoMsg, NotDefined("imageUrls"))]
    /\ pc' = [pc EXCEPT ![i] = "closed"]
    /\ UNCHANGED <<data, pending, store, timers, now, activeTasks, wlog>>
    /\ UNCHANGED invokerVars
    /\ UNCHANGED callbacks
    /\ NoStatusRead
    /\ UNCHANGED sent

\* `${prompt} ${imageSize}` / fmt.Sprintf("%s %s", req.Prompt, req.ImageSize)
PromptText == Prompt \o " " \o ImageSize

\* Buffer.from(buffer).toString('base64') of the image fetched from url
Base64Of(url) == "base64<" \o url \o ">"
\* imageUrl.startsWith('http')
StartsWithHttp(url) == url \in {"https://in.example.com/a.png", "http://in.example.com/b.png"}

\* imageUrls || (imageUrl ? [imageUrl] : []): an array, also an empty one, is truthy
JsAllImageUrls(r) ==
    IF r.imageUrls.given THEN r.imageUrls.list
    ELSE IF r.imageUrl # "" THEN <<r.imageUrl>> ELSE <<>>

\* finalContent of the chat body
JsChatContent(r) ==
    IF Len(JsAllImageUrls(r)) > 0
    THEN ArrayContent(<<TextItem(PromptText)>> \o
                      [k \in 1..Len(JsAllImageUrls(r)) |->
                          ImageUrlItem(JsAllImageUrls(r)[k])])
    ELSE StringContent(PromptText)

\* parts of the Gemini body: built from imageUrl alone; fetched: the fetch of an
\* http(s) imageUrl succeeded (on failure the URL itself is the data)
JsGeminiContent(r, fetched) ==
    IF r.imageUrl # ""
    THEN PartsContent(<<TextItem(PromptText),
                        InlineItem("image/jpeg",
                                   IF StartsWithHttp(r.imageUrl) /\ fetched
                                   THEN Base64Of(r.imageUrl) ELSE r.imageUrl)>>)
    ELSE PartsContent(<<TextItem(PromptText)>>)

\* apiUrl and requestBody of processGeneration
JsOutbound(r, fetched) ==
    IF r.model = "sora_image"
    THEN Outbound(ChatCompletions, "chat", "sora_image", JsChatContent(r))
    ELSE Outbound(GenerateContent, "gemini", "", JsGeminiContent(r, fetched))

\* the setImmediate callback: processGeneration up to the provider call
JsStart(i) ==
    /\ server = "js"
    /\ pc[i] = "queued"
    /\ activeTasks' = activeTasks + 1
    /\ \E fetched \in BOOLEAN :
          sent' = [sent EXCEPT ![i] = JsOutbound(req[i], fetched)]
    /\ pc' = [pc EXCEPT ![i] = "calling"]
    /\ UNCHANGED <<req, data, pending, http, store, timers, now, wlog>>
    /\ UNCHANGED invokerVars
    /\ UNCHANGED callbacks
    /\ NoStatusRead

\* the provider's answers to the (at most JsDefaultRetries) requests of one call
SysResponses ==
    {Http(200, b) : b \in {ChatUrlBody, ChatPlainBody, NullBody, TextBody}}
        \cup {Http(500, TextBody), Timeout}
Scripts == [1..JsDefaultRetries -> SysResponses]
\* a 2xx answer ends the call: the answers after it are never asked for, and are
\* taken equal to it
UsedScripts ==
    {s \in Scripts :
        \A k \in 2..JsDefaultRetries :
            (s[k - 1].kind = "http" /\ JsOk(s[k - 1].status)) => s[k] = s[k - 1]}

\* callAPIWithRetry run to its end against a script of answers
RECURSIVE JsRun(_, _)
JsRun(f, script) ==
    IF f.state \in {"returned", "threw"} \/ (f.state = "attempt" /\ script = <<>>)
    THEN f
    ELSE IF f.state = "sleeping" THEN JsRun(JsWake(f), script)
    ELSE JsRun(JsStep(f, Head(script)), Tail(script))

\* the catch block of processGeneration, then finally
JsCatch(i, err) ==
    IF Truthy(Key(i))
    THEN /\ pending' = [pending EXCEPT ![i] = JsCatchRecord(err)]
         /\ pc' = [pc EXCEPT ![i] = "termCall"]
         /\ UNCHANGED activeTasks
    ELSE /\ activeTasks' = TaskEnds(activeTasks)
         /\ pc' = [pc EXCEPT ![i] = "done"]
         /\ UNCHANGED pending

\* await callAPIWithRetry(apiUrl, requestBody, apiKey, 3, taskId), then
\* await response.json(), then the call of storeResult for the snapshot
JsCallReturns(i, script) ==
    /\ server = "js"
    /\ pc[i] = "calling"
    /\ LET f == JsRun(Frame("js", JsDefaultRetries), script) IN
       IF f.state = "threw"
       THEN JsCatch(i, f.result.error) /\ UNCHANGED data
       ELSE IF ~f.result.body.isJson
       THEN JsCatch(i, JsSyntaxError) /\ UNCHANGED data
       ELSE /\ data' = [data EXCEPT ![i] = f.result.body.data]
            /\ pending' = [pending EXCEPT ![i] = JsSnapshotRecord]
            /\ pc' = [pc EXCEPT ![i] = "snapCall"]
            /\ UNCHANGED activeTasks
    /\ UNCHANGED <<req, http, store, timers, now, wlog>>
    /\ UNCHANGED invokerVars
    /\ UNCHANGED callbacks
    /\ NoStatusRead
    /\ UNCHANGED sent

\* fs.writeFile of a storeResult call opens the file
JsWriteOpens(i) ==
    /\ server = "js"
    /\ pc[i] \in {"snapCall", "termCall"}
    /\ store' = StoreOpen(Key(i))
    /\ pc' = [pc EXCEPT ![i] = IF pc[i] = "snapCall" THEN "snapW" ELSE "termW"]
    /\ UNCHANGED <<req, data, pending, http, timers, now, activeTasks, wlog>>
    /\ UNCHANGED invokerVars
    /\ UNCHANGED callbacks
    /\ NoStatusRead
    /\ UNCHANGED sent

\* the snapshot is stored; the extraction runs and the terminal storeResult is
\* called (from the catch block when the extraction throws)
JsSnapshotWritten(i) ==
    /\ server = "js"
    /\ pc[i] = "snapW"
    /\ store' = StoreWritten(i, Key(i))
    /\ timers' = timers \cup {UnlinkTimer(Key(i))}
    /\ wlog' = [wlog EXCEPT ![i] = Append(@, WriteEntry(i, "snapshot"))]
    /\ IF JsExtractThrows(data[i])
       THEN IF Truthy(Key(i))
            THEN /\ pending' = [pending EXCEPT ![i] = JsCatchRecord(JsTypeError)]
                 /\ pc' = [pc EXCEPT ![i] = "termCall"]
                 /\ UNCHANGED activeTasks
            ELSE /\ activeTasks' = TaskEnds(activeTasks)
                 /\ pc' = [pc EXCEPT ![i] = "done"]
                 /\ UNCHANGED pending
       ELSE /\ pending' = [pending EXCEPT ![i] =
                              JsTerminalRecord(req[i].model, data[i])]
            /\ pc' = [pc EXCEPT ![i] = "termCall"]
            /\ UNCHANGED activeTasks
    /\ UNCHANGED <<req, data, http, now>>
    /\ UNCHANGED invokerVars
    /\ UNCHANGED callbacks
    /\ NoStatusRead
    /\ UNCHANGED sent

\* a variant that stores the debug snapshot after the terminal record
JsSnapshotLast == "snapCall"
\* where processGeneration goes after its terminal storeResult: nothing follows
\* it in the try block and nothing in the catch block, so to finally and out
JsAfterTerminal == "done"

\* the terminal record is stored; finally
JsTerminalWritten(i) ==
    /\ server = "js"
    /\ pc[i] = "termW"
    /\ store' = StoreWritten(i, Key(i))
    /\ timers' = timers \cup {UnlinkTimer(Key(i))}
    /\ wlog' = [wlog EXCEPT ![i] = Append(@, WriteEntry(i, "terminal"))]
    /\ activeTasks' = TaskEnds(activeTasks)
    /\ pc' = [pc EXCEPT ![i] = JsAfterTerminal]
    /\ UNCHANGED <<req, data, pending, http, now>>
    /\ UNCHANGED invokerVars
    /\ UNCHANGED callbacks
    /\ NoStatusRead
    /\ UNCHANGED sent

\* an unlink timer fires: the file is removed, also from under a write that
\* has it open
TimerFire(t) ==
    /\ server = "js"
    /\ t \in timers
    /\ t.deadline <= now
    /\ timers' = timers \ {t}
    /\ store' = [store EXCEPT ![t.key] = Absent]
    /\ pending' = [i \in Slots |->
                     IF pc[i] \in {"snapW", "termW"} /\ JsFile(Key(i)) = t.key
                     THEN [pending[i] EXCEPT !.kind = "unlinked"]
                     ELSE pending[i]]
    /\ UNCHANGED <<pc, req, data, http, now, activeTasks, wlog>>
    /\ UNCHANGED invokerVars
    /\ UNCHANGED callbacks
    /\ NoStatusRead
    /\ UNCHANGED sent

----------------------------------------------------------------------------
(* The clock *)

TimerDue == \E t \in timers : t.deadline <= now
NextDeadline == SetMin({t.deadline : t \in timers})

\* time passes: by a tick, at most MaxSkew ticks into each retention period
\* and never past a timer
Tick ==
    /\ server = "js"
    /\ ~TimerDue
    /\ (now % RetentionMs) < MaxSkew * TickMs
    /\ now' = IF timers = {} THEN now + TickMs ELSE Min(now + TickMs, NextDeadline)
    /\ UNCHANGED <<pc, req, data, pending, http, store, timers, activeTasks, wlog>>
    /\ UNCHANGED invokerVars
    /\ UNCHANGED callbacks
    /\ NoStatusRead
    /\ UNCHANGED sent

\* the part of processGeneration after the provider call: extraction and file
\* writes
Storing(i) == pc[i] \in {"snapCall", "snapW", "termCall", "termW"}

\* time passes up to the next timer; no execution is between the return of its
\* provider call and its end, a part that takes ticks, not retention periods
Jump ==
    /\ server = "js"
    /\ ~TimerDue
    /\ timers # {}
    /\ \A i \in Slots : ~Storing(i)
    /\ now' = NextDeadline
    /\ UNCHANGED <<pc, req, data, pending, http, store, timers, activeTasks, wlog>>
    /\ UNCHANGED invokerVars
    /\ UNCHANGED callbacks
    /\ NoStatusRead
    /\ UNCHANGED sent

----------------------------------------------------------------------------
(* server.js as a whole *)

Init ==
    /\ call = NoCall
    /\ log = <<>>
    /\ InitServer

\* the steps of server.js with the requests in the slots S
JsSteps(S) ==
    \/ \E i \in S, body \in RequestBodies : JsAsyncRequest(i, body)
    \/ \E i \in S, body \in RequestBodies : JsSyncRequest(i, body)
    \/ \E i \in S : JsStart(i)
    \/ \E i \in S, script \in UsedScripts : JsCallReturns(i, script)
    \/ \E i \in S : JsWriteOpens(i)
    \/ \E i \in S : JsSnapshotWritten(i)
    \/ \E i \in S : JsTerminalWritten(i)
    \/ \E t \in timers : TimerFire(t)
    \/ Tick
    \/ Jump

Next == JsSteps(Slots)

Spec == Init /\ [][Next]_vars

----------------------------------------------------------------------------
(* Claims about the task store of server.js *)

Finished(i) == pc[i] = "done"
TerminalWrites(i) == {k \in 1..Len(wlog[i]) : wlog[i][k].kind = "terminal"}
\* no other execution uses the key of execution i
SoleWriter(i) ==
    \A j \in Slots \ {i} : pc[j] \in {"idle", "closed"} \/ Key(j) # Key(i)

\* C2: an execution of processGeneration with a taskId performs exactly one
\* terminal write, and from that write until 30 minutes after it the status
\* endpoint answers with the outcome written.
C2_OneTerminalOutcome ==
    \A i \in Slots :
        (Finished(i) /\ Truthy(Key(i))) =>
            /\ Cardinality(TerminalWrites(i)) = 1
            /\ \A k \in TerminalWrites(i) :
                  now < wlog[i][k].at + RetentionMs =>
                      StatusResponse(Key(i)) = StatusBody(wlog[i][k].rec)

\* C3: a request to the synchronous endpoint that carries an apiKey is answered
\* with success and an image URL (the claim supposes a provider that answers 2xx
\* with an extractable image; the handler answers before any provider is asked).
C3_SyncReturnsImage ==
    \A i \in Slots :
        (pc[i] = "closed" /\ req[i].endpoint = "sync" /\ req[i].apiKey) =>
            (http[i].status = 200 /\ http[i].success /\ http[i].imageUrl # NoMsg)

\* C5: a task accepted by the async endpoint gets a terminal outcome: once its
\* execution has ended (it takes no further step), a terminal write was made
\* for it.
C5_AcceptedTaskGetsOutcome ==
    \A i \in Slots :
        (Finished(i) /\ req[i].endpoint = "async") => TerminalWrites(i) # {}

\* C10: after the terminal write of a task at time T, the status endpoint
\* answers with the outcome written at every time before T + 30 minutes, and the
\* entry is absent at every time after T + 30 minutes (stated for a task whose
\* key no other execution uses).
C10_RetentionWindow ==
    \A i \in Slots : \A k \in TerminalWrites(i) :
        SoleWriter(i) =>
            /\ now < wlog[i][k].at + RetentionMs =>
                  StatusResponse(Key(i)) = StatusBody(wlog[i][k].rec)
            /\ now > wlog[i][k].at + RetentionMs =>
                  GetResult(Key(i)) = Absent

----------------------------------------------------------------------------
(* main.go: extractImageURL *)

\* findSubstring for one token out of a set: the first position, 0 for -1
GoFind(text, toks) ==
    IF \E p \in 1..Len(text) : text[p] \in toks
    THEN SetMin({p \in 1..Len(text) : text[p] \in toks})
    ELSE 0

GoTerminators == {" ", "\n", "\"", "'", "]", "}", ")", "("}
GoGeminiTerminators == {" ", "\n"}
GoGeminiExts == {".jpg", ".png"}

\* content[startIdx:endIdx]: from start up to the first terminator at or after it
GoUrlFrom(text, start, terminators) ==
    LET stops == {q \in start..Len(text) : text[q] \in terminators}
        end == IF stops = {} THEN Len(text) + 1 ELSE SetMin(stops)
    IN  SubSeq(text, start, end - 1)

GoExtracted(url) == [ok |-> TRUE, url |-> url, error |-> NoMsg]
GoExtractError(err) == [ok |-> FALSE, url |-> NoMsg, error |-> err]
\* fmt.Errorf("generation failed: %s", content)
GoGenerationFailed(content) == <<"generation", "failed:">> \o content
GoNoImage == <<"no", "image", "URL", "found", "in", "response">>

\* the "sora" / "sora_image" block; "fall" when it returns nothing
GoChatExtract(content) ==
    LET start == IF GoFind(content, {"https://"}) # 0
                 THEN GoFind(content, {"https://"})
                 ELSE GoFind(content, {"http://"})
        url == GoUrlFrom(content, start, GoTerminators)
    IN  IF content = <<>> THEN "fall"
        ELSE IF GoFind(content, {FailMarker}) # 0 \/ GoFind(content, {ReasonMarker}) # 0
        THEN "failed"
        ELSE IF start # 0 /\ GoFind(url, ImageExts) # 0 THEN "url"
        ELSE "fall"

GoChatUrl(content) ==
    GoUrlFrom(content,
              IF GoFind(content, {"https://"}) # 0 THEN GoFind(content, {"https://"})
              ELSE GoFind(content, {"http://"}),
              GoTerminators)

\* the URL a text part yields, NoMsg for none
GoTextPartUrl(text) ==
    LET start == GoFind(text, {"https://"})
        url == GoUrlFrom(text, start, GoGeminiTerminators)
    IN  IF start # 0 /\ GoFind(url, GoGeminiExts) # 0 THEN url ELSE NoMsg

\* the loop over Candidates[0].Content.Parts: the first part that yields a
\* result returns it; NoMsg when the loop ends
RECURSIVE GoGeminiParts(_)
GoGeminiParts(parts) ==
    IF parts = <<>> THEN NoMsg
    ELSE LET part == Head(parts) IN
         IF part.data # "" /\ part.mimeType # ""
         THEN DataUrl(part.mimeType, part.data)
         ELSE IF part.text # <<>> /\ GoTextPartUrl(part.text) # NoMsg
         THEN GoTextPartUrl(part.text)
         ELSE GoGeminiParts(Tail(parts))

\* extractImageURL(data, model); json.Unmarshal fails on a body that is not JSON
\* and leaves the struct empty on null or an object without the fields
GoExtractImageURL(body, model) ==
    LET d == body.data
        chat == model \in {"sora", "sora_image"} /\ body.isJson /\ d.shape = "chat"
        gemini == model = "gemini" /\ body.isJson /\ d.shape = "gemini"
    IN  IF chat /\ GoChatExtract(d.content) = "failed"
        THEN GoExtractError(GoGenerationFailed(d.content))
        ELSE IF chat /\ GoChatExtract(d.content) = "url"
        THEN GoExtracted(GoChatUrl(d.content))
        ELSE IF gemini /\ GoGeminiParts(d.parts) # NoMsg
        THEN GoExtracted(GoGeminiParts(d.parts))
        ELSE GoExtractError(GoNoImage)

----------------------------------------------------------------------------
(* main.go: taskResults, the handlers and processGeneration *)

MaxSweeps == 3      \* runs of the cleanup ticker

DefaultTimeoutMs == 4 * 60 * 1000
SweepPeriodMs == 5 * 60 * 1000
GoMaxAgeMs == 10 * 60 * 1000
\* the handler's context and the cleanup ticker are whole minutes after the
\* event that sets them
GoGranuleMs == 60 * 1000

\* time.Now().Format(time.RFC3339), parsed back: the time cut to whole seconds
Rfc3339(t) == (t \div 1000) * 1000

\* uuid.New().String(): an identifier no other request has
Uuid(i) == "uuid-" \o ToString(i)
GoKeys == TaskIds \cup {Uuid(i) : i \in Slots}

\* a TaskResult in taskResults (raw: the RawResponse, EmptyBody when omitted), or
\* no entry
GoResult(success, imageUrl, error, raw, ts) ==
    [kind |-> "record", success |-> success, imageUrl |-> imageUrl,
     error |-> error, raw |-> raw, timestamp |-> ts]
GoNone == [kind |-> "absent", success |-> FALSE, imageUrl |-> NoMsg,
           error |-> NoMsg, raw |-> EmptyBody, timestamp |-> 0]

\* context.WithTimeout(context.Background(), 10*time.Second) of sendCallback
CallbackTimeoutMs == 10 * 1000
CallbackUrl == "https://hooks.example.com/done"
GoCb(i, at) == [key |-> "cb", slot |-> i, deadline |-> at]

GoTicker(at) == [key |-> "ticker", slot |-> 0, deadline |-> at]
GoCtx(i, at) == [key |-> "ctx", slot |-> i, deadline |-> at]

InitGo ==
    /\ call = NoCall
    /\ log = <<>>
    /\ server = "go"
    /\ callbacks = [i \in Slots |-> <<>>]
    /\ polled = NoPoll
    /\ sent = [i \in Slots |-> NoSent]
    /\ pc = [i \in Slots |-> "idle"]
    /\ req = [i \in Slots |-> NoReq]
    /\ data = [i \in Slots |-> NoData]
    /\ pending = [i \in Slots |-> Absent]
    /\ http = [i \in Slots |-> NoHttp]
    /\ store = [k \in GoKeys |-> GoNone]
    /\ timers = {GoTicker(SweepPeriodMs)}
    /\ now = 0
    /\ activeTasks = 0
    /\ wlog = [i \in Slots |-> <<>>]

\* err.Error() of a failed ShouldBindJSON
GoBindError == <<"invalid", "character">>
GoTaskNotFound == <<"Task", "result", "not", "found">>
GoRequestTimeout == <<"Request", "timeout">>

\* if req.TaskID == "" { req.TaskID = uuid.New().String() }
GoAccepted(i, body) ==
    [body EXCEPT !.taskId = IF body.taskId = NoId THEN Uuid(i) ELSE body.taskId]

\* either POST handler given a body that ShouldBindJSON rejects
GoBadRequest(i, endpoint) ==
    /\ server = "go"
    /\ Free(i)
    /\ req' = [req EXCEPT ![i] = [NoReq EXCEPT !.endpoint = endpoint,
                                                !.model = "unparsed"]]
    /\ http' = [http EXCEPT ![i] = Reply(400, FALSE, NoId, NoMsg, GoBindError)]
    /\ pc' = [pc EXCEPT ![i] = "closed"]
    /\ UNCHANGED <<data, pending, store, timers, now, activeTasks, wlog, sent>>
    /\ UNCHANGED invokerVars
    /\ UNCHANGED callbacks
    /\ NoStatusRead

\* POST /api/generate/async
GoAsyncRequest(i, body) ==
    /\ server = "go"
    /\ Free(i)
    /\ body.endpoint = "async"
    /\ IF KeyMissing(body)
       THEN /\ http' = [http EXCEPT ![i] = Reply(401, FALSE, NoId, NoMsg, ApiKeyRequired)]
            /\ req' = [req EXCEPT ![i] = Received(body)]
            /\ pc' = [pc EXCEPT ![i] = "closed"]
       ELSE /\ http' = [http EXCEPT ![i] = AsyncAccepted(GoAccepted(i, body).taskId)]
            /\ req' = [req EXCEPT ![i] = GoAccepted(i, body)]
            /\ pc' = [pc EXCEPT ![i] = "spawned"]
    /\ UNCHANGED <<data, pending, store, timers, now, activeTasks, wlog, sent>>
    /\ UNCHANGED invokerVars
    /\ UNCHANGED callbacks
    /\ NoStatusRead

\* POST /api/generate up to the select
GoSyncRequest(i, body) ==
    /\ server = "go"
    /\ Free(i)
    /\ body.endpoint = "sync"
    /\ IF KeyMissing(body)
       THEN /\ http' = [http EXCEPT ![i] = Reply(401, FALSE, NoId, NoMsg, ApiKeyRequired)]
            /\ req' = [req EXCEPT ![i] = Received(body)]
            /\ pc' = [pc EXCEPT ![i] = "closed"]
            /\ UNCHANGED timers
       ELSE /\ req' = [req EXCEPT ![i] = GoAccepted(i, body)]
            /\ timers' = timers \cup {GoCtx(i, now + DefaultTimeoutMs)}
            /\ pc' = [pc EXCEPT ![i] = "spawned"]
            /\ UNCHANGED http
    /\ UNCHANGED <<data, pending, store, now, activeTasks, wlog, sent>>
    /\ UNCHANGED invokerVars
    /\ UNCHANGED callbacks
    /\ NoStatusRead

\* allImageURLs / images: req.ImageURLs, or the one ImageURL when that is empty
GoAllImageUrls(r) ==
    IF Len(r.imageUrls.list) = 0 /\ r.imageUrl # "" THEN <<r.imageUrl>>
    ELSE r.imageUrls.list

\* content of case "sora", "sora_image"
GoChatContent(r) ==
    IF Len(GoAllImageUrls(r)) > 0
    THEN ArrayContent(<<TextItem(PromptText)>> \o
                      [k \in 1..Len(GoAllImageUrls(r)) |->
                          ImageUrlItem(GoAllImageUrls(r)[k])])
    ELSE StringContent(PromptText)

\* parts of case "gemini": the URL itself is the data of each inline part
GoGeminiContent(r) ==
    PartsContent(<<TextItem(PromptText)>> \o
                 [k \in 1..Len(GoAllImageUrls(r)) |->
                     InlineItem("image/jpeg", GoAllImageUrls(r)[k])])

\* apiURL and requestBody of the switch on req.Model
GoOutbound(r) ==
    CASE r.model \in {"sora", "sora_image"} ->
            Outbound(ChatCompletions, "chat", "sora_image", GoChatContent(r))
      [] r.model = "gemini" -> Outbound(GenerateContent, "gemini", "", GoGeminiContent(r))
      [] OTHER -> Outbound(ChatCompletions, "chat", r.model, StringContent(PromptText))

\* the goroutine starts processGeneration: up to the provider call
GoStart(i) ==
    /\ server = "go"
    /\ pc[i] = "spawned"
    /\ activeTasks' = activeTasks + 1
    /\ sent' = [sent EXCEPT ![i] = GoOutbound(req[i])]
    /\ pc' = [pc EXCEPT ![i] = "calling"]
    /\ UNCHANGED <<req, data, pending, http, store, timers, now, wlog>>
    /\ UNCHANGED invokerVars
    /\ UNCHANGED callbacks
    /\ NoStatusRead

\* callAPIWithRetry run to its end against a script of answers
RECURSIVE GoRun(_, _)
GoRun(f, script) ==
    IF f.state \in {"returned", "threw"} \/ (f.state = "attempt" /\ script = <<>>)
    THEN f
    ELSE IF f.state = "sleeping" THEN GoRun(GoWake(f), script)
    ELSE GoRun(GoStep(f, Head(script)), Tail(script))

\* fmt.Sprintf("API call failed: %v", err)
GoCallFailed(err) == <<"API", "call", "failed:">> \o err

\* the TaskResult processGeneration stores for the outcome f of the call
GoTaskResult(f, model) ==
    LET x == GoExtractImageURL(f.result.body, model) IN
    IF f.state = "threw"
    THEN GoResult(FALSE, NoMsg, GoCallFailed(f.result.error), EmptyBody, Rfc3339(now))
    ELSE IF x.ok
    THEN GoResult(TRUE, x.url, NoMsg, f.result.body, Rfc3339(now))
    ELSE GoResult(FALSE, NoMsg, x.error, f.result.body, Rfc3339(now))

\* where the goroutine is once processGeneration has returned: in the sync
\* handler's goroutine "done <- true" comes next
GoReturned(i) == IF req[i].endpoint = "sync" THEN "sending" ELSE "done"

\* callAPIWithRetry returns; extraction; taskResults.Store; without callbackUrl
\* processGeneration returns (the deferred decrement).
GoCallReturns(i, script) ==
    /\ server = "go"
    /\ pc[i] = "calling"
    /\ LET rec == GoTaskResult(GoRun(Frame("go", MaxRetries), script), req[i].model) IN
       /\ store' = [store EXCEPT ![Key(i)] = rec]
       /\ wlog' = [wlog EXCEPT ![i] =
                     Append(@, [kind |-> "terminal", at |-> now, rec |-> rec,
                                lost |-> FALSE])]
    /\ IF req[i].callbackUrl # ""
       THEN pc' = [pc EXCEPT ![i] = "notifying"] /\ UNCHANGED activeTasks
       ELSE /\ pc' = [pc EXCEPT ![i] = GoReturned(i)]
            /\ activeTasks' = TaskEnds(activeTasks)
    /\ UNCHANGED <<req, data, pending, http, timers, now, sent>>
    /\ UNCHANGED invokerVars
    /\ UNCHANGED callbacks
    /\ NoStatusRead

\* CallbackPayload{TaskID, Status, ImageURL / Error} for the result just stored
GoCallbackPayload(i, rec) ==
    [taskId |-> Key(i), status |-> IF rec.success THEN "completed" ELSE "failed",
     imageUrl |-> rec.imageUrl, error |-> rec.error]

\* sendCallback up to httpClient.Do: one POST to the callback URL is on its way
GoSendCallback(i) ==
    /\ server = "go"
    /\ pc[i] = "notifying"
    /\ callbacks' = [callbacks EXCEPT ![i] =
                        Append(@, [payload |-> GoCallbackPayload(i, wlog[i][Len(wlog[i])].rec),
                                   at |-> now, outcome |-> "pending"])]
    /\ timers' = timers \cup {GoCb(i, now + CallbackTimeoutMs)}
    /\ pc' = [pc EXCEPT ![i] = "awaiting"]
    /\ UNCHANGED <<req, data, pending, http, store, now, activeTasks, wlog, sent>>
    /\ UNCHANGED invokerVars
    /\ NoStatusRead

\* how a callback request ends: a response below 400, a response from 400 up, a
\* transport failure, or the 10 seconds are over
CallbackOutcomes == {"ok", "error", "neterr", "timeout"}
GoCbTimers(i) == {t \in timers : t.key = "cb" /\ t.slot = i}

\* (mutant) a callback that did not succeed is sent again
GoCallbackRetried(i, outcome) ==
    IF outcome # "ok" THEN "notifying"
    ELSE IF req[i].endpoint = "sync" THEN "sending" ELSE "done"
\* after sendCallback processGeneration logs and returns, whatever the error
GoAfterCallback(i, outcome) == GoReturned(i)

\* sendCallback returns (nil or an error, which is logged at most);
\* processGeneration returns: the deferred decrement
GoCallbackEnds(i, outcome) ==
    /\ server = "go"
    /\ pc[i] = "awaiting"
    /\ outcome = "timeout" <=> \E t \in GoCbTimers(i) : t.deadline <= now
    /\ callbacks' = [callbacks EXCEPT ![i][Len(callbacks[i])].outcome = outcome]
    /\ timers' = timers \ GoCbTimers(i)
    /\ activeTasks' = TaskEnds(activeTasks)
    /\ pc' = [pc EXCEPT ![i] = GoAfterCallback(i, outcome)]
    /\ UNCHANGED <<req, data, pending, http, store, now, wlog, sent>>
    /\ UNCHANGED invokerVars
    /\ NoStatusRead

\* (mutant) the select is entered again after an answer
GoInSelectAgain(i) == req[i].endpoint = "sync" /\ req[i].apiKey
\* the handler of POST /api/generate is in its select
GoInSelect(i) == req[i].endpoint = "sync" /\ req[i].apiKey /\ http[i] = NoHttp
GoCtxTimers(i) == {t \in timers : t.key = "ctx" /\ t.slot = i}

\* case <-done: the handler answers from taskResults and returns (cancel)
GoSyncDone(i) ==
    /\ server = "go"
    /\ pc[i] = "sending"
    /\ GoInSelect(i)
    /\ http' = [http EXCEPT ![i] =
                  LET result == store[Key(i)] IN
                  IF result.kind # "record"
                  THEN Reply(500, FALSE, NoId, NoMsg, GoTaskNotFound)
                  ELSE IF result.success
                  THEN Reply(200, TRUE, Key(i), result.imageUrl, NoMsg)
                  ELSE Reply(500, FALSE, NoId, NoMsg, result.error)]
    /\ timers' = timers \ GoCtxTimers(i)
    /\ pc' = [pc EXCEPT ![i] = "done"]
    /\ UNCHANGED <<req, data, pending, store, now, activeTasks, wlog, sent>>
    /\ UNCHANGED invokerVars
    /\ UNCHANGED callbacks
    /\ NoStatusRead

\* a variant in which the goroutine ends with the handler's context
GoTimeoutCancels(i) == "done"
\* the goroutine when the handler returns on ctx.Done(): ctx is not passed to
\* processGeneration, nothing stops it
GoAfterTimeout(i) == pc[i]

\* case <-ctx.Done(): 504; the goroutine is left running
GoSyncTimeout(i) ==
    /\ server = "go"
    /\ GoInSelect(i)
    /\ \E t \in GoCtxTimers(i) : t.deadline <= now
    /\ http' = [http EXCEPT ![i] = Reply(504, FALSE, NoId, NoMsg, GoRequestTimeout)]
    /\ timers' = timers \ GoCtxTimers(i)
    /\ pc' = [pc EXCEPT ![i] = GoAfterTimeout(i)]
    /\ UNCHANGED <<req, data, pending, store, now, activeTasks, wlog, sent>>
    /\ UNCHANGED invokerVars
    /\ UNCHANGED callbacks
    /\ NoStatusRead

\* time.Since(taskTime) > 10*time.Minute
GoTooOld(result) == now - result.timestamp > GoMaxAgeMs

\* one run of the cleanup goroutine's loop body
GoCleanup ==
    /\ server = "go"
    /\ \E t \in timers :
          /\ t.key = "ticker"
          /\ t.deadline <= now
          /\ timers' = (timers \ {t}) \cup
                          (IF t.deadline < MaxSweeps * SweepPeriodMs
                           THEN {GoTicker(t.deadline + SweepPeriodMs)} ELSE {})
    /\ store' = [k \in DOMAIN store |->
                   IF store[k].kind = "record" /\ GoTooOld(store[k])
                   THEN GoNone ELSE store[k]]
    /\ UNCHANGED <<pc, req, data, pending, http, now, activeTasks, wlog, sent>>
    /\ UNCHANGED invokerVars
    /\ UNCHANGED callbacks
    /\ NoStatusRead

\* a goroutine that is scheduled and runs without waiting: the start of
\* processGeneration, and the send on done to a handler that is in its select
GoRunnable(i) ==
    pc[i] \in {"spawned", "notifying"} \/ (pc[i] = "sending" /\ GoInSelect(i))

\* time passes during a provider call: by a tick, at most MaxSkew ticks after a
\* whole minute and never past a timer
GoTick ==
    /\ server = "go"
    /\ ~TimerDue
    /\ \E i \in Slots : pc[i] = "calling"
    /\ \A i \in Slots : ~GoRunnable(i)
    /\ (now % GoGranuleMs) < MaxSkew * TickMs
    /\ now' = IF timers = {} THEN now + TickMs ELSE Min(now + TickMs, NextDeadline)
    /\ UNCHANGED <<pc, req, data, pending, http, store, timers, activeTasks, wlog, sent>>
    /\ UNCHANGED invokerVars
    /\ UNCHANGED callbacks
    /\ NoStatusRead

\* time passes up to the next timer; runnable goroutines run first.  The clock
\* starts with the first request (the ticker's phase is that of the requests).
GoJump ==
    /\ server = "go"
    /\ ~TimerDue
    /\ \A i \in Slots : ~GoRunnable(i)
    /\ \E i \in Slots : pc[i] # "idle"
    /\ timers # {}
    /\ now' = NextDeadline
    /\ UNCHANGED <<pc, req, data, pending, http, store, timers, activeTasks, wlog, sent>>
    /\ UNCHANGED invokerVars
    /\ UNCHANGED callbacks
    /\ NoStatusRead

\* main.go gives a request without taskId an identifier of its own, so one
\* identifier chosen by callers is enough for equal and for distinct identifiers
\* a callbackUrl comes with one kind of request: async, with taskId, sora_image
GoRequestBodies ==
    LET plain == {b \in RequestBodies : b.taskId \in {NoId, "t1"}}
    IN  plain \cup {[b EXCEPT !.callbackUrl = CallbackUrl] :
                       b \in {x \in plain : x.endpoint = "async" /\ x.apiKey
                                                /\ x.taskId = "t1"
                                                /\ x.model = "sora_image"}}

\* the steps of main.go with the requests in the slots S
GoSteps(S) ==
    \/ \E i \in S, endpoint \in {"async", "sync"} : GoBadRequest(i, endpoint)
    \/ \E i \in S, body \in GoRequestBodies : GoAsyncRequest(i, body)
    \/ \E i \in S, body \in GoRequestBodies : GoSyncRequest(i, body)
    \/ \E i \in S : GoStart(i)
    \/ \E i \in S, script \in UsedScripts : GoCallReturns(i, script)
    \/ \E i \in S : GoSendCallback(i)
    \/ \E i \in S, outcome \in CallbackOutcomes : GoCallbackEnds(i, outcome)
    \/ \E i \in S : GoSyncDone(i)
    \/ \E i \in S : GoSyncTimeout(i)
    \/ GoCleanup
    \/ GoTick
    \/ GoJump

NextGo == GoSteps(Slots)

SpecGo == InitGo /\ [][NextGo]_vars

----------------------------------------------------------------------------
(* Status reads *)

\* server.js GET /api/status/:taskId: getResult reads the file; always 200
JsGetStatus(k) ==
    /\ server = "js"
    /\ polled' = LET b == StatusResponse(k) IN
                 PollReply(k, 200, b.status, b.success, b.imageUrl, b.error)
    /\ UNCHANGED <<pc, req, data, pending, http, store, timers, now, activeTasks,
                   wlog, sent, server>>
    /\ UNCHANGED invokerVars
    /\ UNCHANGED callbacks

GoNotFound == <<"Task", "not", "found">>

\* what main.go GET /api/status/:taskId answers: the TaskResult as stored, or 404
GoStatusReply(k) ==
    IF store[k].kind = "record"
    THEN PollReply(k, 200, "", store[k].success, store[k].imageUrl, store[k].error)
    ELSE PollReply(k, 404, "", FALSE, NoMsg, GoNotFound)

\* main.go GET /api/status/:taskId
GoGetStatus(k) ==
    /\ server = "go"
    /\ polled' = GoStatusReply(k)
    /\ UNCHANGED <<pc, req, data, pending, http, store, timers, now, activeTasks,
                   wlog, sent, server>>
    /\ UNCHANGED invokerVars
    /\ UNCHANGED callbacks

\* the slots in use when the last one stays free
Used == Slots \ {MaxReqs}

\* generation requests in the slots in use and any number of status reads, of
\* either server
NextPolls ==
    \/ JsSteps(Used)
    \/ GoSteps(Used)
    \/ \E k \in Keys : JsGetStatus(k)
    \/ \E k \in GoKeys : GoGetStatus(k)

SpecPolls == (Init \/ InitGo) /\ [][NextPolls]_vars

----------------------------------------------------------------------------
(* Claims about the handlers and the stores of both servers *)

\* a task with key k was accepted
Submitted(k) == \E i \in Slots : pc[i] \notin {"idle", "closed"} /\ Key(i) = k
\* slot i holds a well-formed generation request
Parsed(i) == req[i].endpoint \in {"async", "sync"} /\ req[i].model # "unparsed"

\* C11: in main.go an outcome stored in taskResults at time T is still there,
\* and readable, at every time before T + 30 minutes.
C11_GoRetentionWindow ==
    server = "go" =>
        \A i \in Slots : \A k \in TerminalWrites(i) :
            (SoleWriter(i) /\ now < wlog[i][k].at + RetentionMs) =>
                /\ store[Key(i)] = wlog[i][k].rec
                /\ GoStatusReply(Key(i)).code = 200

C13_NoKeyNoTask ==
    \A i \in Slots :
        (Parsed(i) /\ ~req[i].apiKey) =>
            /\ pc[i] = "closed"
            /\ http[i].status = 401
            /\ sent[i] = NoSent
            /\ wlog[i] = <<>>

\* a request without apiKey has been rejected
C13_Witness ==
    \E i \in Slots : Parsed(i) /\ ~req[i].apiKey /\ http[i].status = 401

\* C14: a request accepted by the async endpoint has its answer {success: true}
\* from the moment it is accepted: before its executor starts (nothing sent to
\* the provider, nothing stored) and while the provider call is outstanding.
C14_AsyncAnswersFirst ==
    \A i \in Slots :
        (Parsed(i) /\ req[i].endpoint = "async" /\ req[i].apiKey) =>
            /\ http[i].status = 200 /\ http[i].success
            /\ pc[i] \in {"queued", "spawned"} => (sent[i] = NoSent /\ wlog[i] = <<>>)

\* the answer is there while the provider call has not returned
C14_Witness ==
    \E i \in Slots :
        /\ req[i].endpoint = "async"
        /\ pc[i] = "calling"
        /\ http[i].status = 200

\* C15: the sync endpoint answers a well-formed request with an HTTP error
\* status only for a missing credential (401), a provider 4xx (400) or a
\* timeout (504); every other failure has a non-error status.
C15_SyncErrorStatuses ==
    \A i \in Slots :
        (Parsed(i) /\ req[i].endpoint = "sync" /\ http[i].status >= 400) =>
            http[i].status \in {400, 401, 504}

\* C16: main.go's sync handler answers once: with the stored outcome, when the
\* goroutine has finished processGeneration, or with 504, when the 4 minutes are
\* over; it is never in its select after the 4 minutes.
C16_GoSyncAnswersOnce ==
    /\ [](server = "go" =>
            \A i \in Slots :
                (Parsed(i) /\ req[i].endpoint = "sync" /\ req[i].apiKey /\ http[i] = NoHttp) =>
                    /\ GoCtxTimers(i) # {}
                    /\ \A t \in GoCtxTimers(i) : now <= t.deadline)
    /\ [][server = "go" =>
            \A i \in Slots :
                (Parsed(i) /\ req[i].endpoint = "sync" /\ req[i].apiKey) =>
                    /\ http[i] # NoHttp => http'[i] = http[i]
                    /\ (http[i] = NoHttp /\ http'[i] # NoHttp) =>
                          IF http'[i].status = 504
                          THEN \E t \in GoCtxTimers(i) : t.deadline <= now
                          ELSE /\ pc[i] = "sending"
                               /\ http'[i].success = store[Key(i)].success
                               /\ http'[i].imageUrl = store[Key(i)].imageUrl
                               /\ http'[i].error = store[Key(i)].error
                               /\ http'[i].status = IF store[Key(i)].success
                                                    THEN 200 ELSE 500]_vars

\* the handler answered 504 and the goroutine finished afterwards
C16_Witness ==
    \E i \in Slots :
        /\ server = "go"
        /\ http[i].status = 504
        /\ pc[i] = "sending"

----------------------------------------------------------------------------
(* Extraction and provider selection over many provider responses and model *)
(* tags: one accepted async request, whose provider call is answered 2xx    *)

MaxText == 4        \* tokens in the message text of a chat response
MaxParts == 3       \* parts in the first candidate of a Gemini response

ModelTags == {"sora_image", "sora", "gemini", "flux"}
ChatTokens == {FailMarker, " ", "https://", "a", ".png"}
PartKinds ==
    {TextPart(PlainText), TextPart(UrlText), InlinePart("image/png", "QUJD"),
     InlinePart("image/jpeg", "REVG")}

\* a 2xx body {"image_url": "https://cdn.example.com/a.png"}
DirectUrl == <<"https://", "cdn.example.com/a", ".png">>
ImageUrlBody ==
    Body(<<"{image_url}">>, TRUE, <<>>, Json("image_url", DirectUrl, <<>>), FALSE)

\* a chat text with two URLs, the first without image extension
TwoUrlText == <<"see", " ", "https://", "a", " ", "https://", "a", ".png">>
TwoUrlBody == Body(<<"{two-urls}">>, TRUE, <<>>, Json("chat", TwoUrlText, <<>>), FALSE)

SeqsUpTo(S, n) == UNION {[1..m -> S] : m \in 0..n}
JsonBody(d) == Body(<<"{json}">>, TRUE, <<>>, d, FALSE)
ExtractBodies ==
    {JsonBody(Json("chat", c, <<>>)) : c \in SeqsUpTo(ChatTokens, MaxText)}
        \cup {JsonBody(Json("gemini", <<>>, ps)) : ps \in SeqsUpTo(PartKinds, MaxParts)}
        \cup {NullBody, TextBody, JsonBody(NoData), ChatUrlBody, ImageUrlBody,
              TwoUrlBody}
TagBodies ==
    [endpoint : {"async"}, apiKey : {TRUE}, taskId : {"t1"}, model : ModelTags,
     imageUrl : {""}, imageUrls : {NoList}, callbackUrl : {""}]

\* the provider answers the first request 2xx with body b
Answered(b) == [k \in 1..JsDefaultRetries |-> Http(200, b)]

NextExtract ==
    \/ \E i \in Used, body \in TagBodies : JsAsyncRequest(i, body)
    \/ \E i \in Used : JsStart(i)
    \/ \E i \in Used, b \in ExtractBodies : JsCallReturns(i, Answered(b))
    \/ \E i \in Used : JsWriteOpens(i)
    \/ \E i \in Used : JsSnapshotWritten(i)
    \/ \E i \in Used : JsTerminalWritten(i)
    \/ \E i \in Used, body \in TagBodies : GoAsyncRequest(i, body)
    \/ \E i \in Used : GoStart(i)
    \/ \E i \in Used, b \in ExtractBodies : GoCallReturns(i, Answered(b))

SpecExtract == (Init \/ InitGo) /\ [][NextExtract]_vars

----------------------------------------------------------------------------
(* Claims about extraction and provider selection *)

\* the record of the terminal write of a finished execution
TerminalRec(i) == wlog[i][Len(wlog[i])].rec
\* the parts that carry inline image data, and the text parts with an image URL
InlineIdx(parts) ==
    {p \in 1..Len(parts) : parts[p].data # "" /\ parts[p].mimeType # ""}
TextUrlIdx(parts) == {p \in 1..Len(parts) : JsUrlMatch(parts[p].text) # NoMsg}
FirstInline(parts) == parts[SetMin(InlineIdx(parts))]

\* C17: in server.js with the chat-completion model, a message text that
\* contains the failure marker gives Failure with the whole text as the error,
\* whatever else the text contains.
C17_JsFailureMarkerWins ==
    \A i \in Slots :
        (/\ server = "js" /\ Finished(i) /\ req[i].model = "sora_image"
         /\ data[i].shape = "chat" /\ Includes(data[i].content, <<FailMarker>>)) =>
            TerminalRec(i) = Record(FALSE, NoMsg, data[i].content, TRUE)

\* C18: in server.js Gemini extraction, parts with inline data give Success with
\* the data URL of the first of them; otherwise a text part with an image URL
\* gives Success with that URL; otherwise the outcome is Failure.
C18_JsGeminiExtraction ==
    \A i \in Slots :
        (/\ server = "js" /\ Finished(i) /\ req[i].model # "sora_image"
         /\ data[i].shape = "gemini") =>
            LET parts == data[i].parts
                rec == TerminalRec(i)
            IN  IF InlineIdx(parts) # {}
                THEN /\ rec.success
                     /\ rec.imageUrl = DataUrl(FirstInline(parts).mimeType,
                                               FirstInline(parts).data)
                ELSE IF TextUrlIdx(parts) # {}
                THEN /\ rec.success
                     /\ \E p \in TextUrlIdx(parts) :
                           rec.imageUrl = JsUrlMatch(parts[p].text)
                ELSE ~rec.success /\ rec.error = JsNoImage

\* a text part with a URL precedes the inline data, and the data URL is stored
C18_Witness ==
    \E i \in Slots :
        /\ server = "js" /\ Finished(i) /\ req[i].model = "gemini"
        /\ data[i].shape = "gemini"
        /\ InlineIdx(data[i].parts) # {}
        /\ \E p \in TextUrlIdx(data[i].parts) : p < SetMin(InlineIdx(data[i].parts))
        /\ store[Key(i)].imageUrl = DataUrl("image/png", "QUJD")

\* C19: in main.go with the gemini model, a first candidate with an inline-data
\* part gives that part's data URI, in every order of the parts.
C19_GoInlineDataWins ==
    \A i \in Slots :
        (/\ server = "go" /\ Finished(i) /\ req[i].model = "gemini"
         /\ TerminalRec(i).raw.data.shape = "gemini"
         /\ InlineIdx(TerminalRec(i).raw.data.parts) # {}) =>
            /\ TerminalRec(i).success
            /\ TerminalRec(i).imageUrl =
                  DataUrl(FirstInline(TerminalRec(i).raw.data.parts).mimeType,
                          FirstInline(TerminalRec(i).raw.data.parts).data)

\* C20: server.js sends a task with a "sora"-family tag to the chat-completion
\* endpoint, one with the gemini tag to the multimodal-generation endpoint, and
\* one with any other tag to the chat-completion endpoint with the tag as model.
C20_JsProviderSelection ==
    \A i \in Slots :
        (server = "js" /\ sent[i] # NoSent) =>
            CASE req[i].model \in {"sora", "sora_image"} ->
                    sent[i].url = ChatCompletions
              [] req[i].model = "gemini" -> sent[i].url = GenerateContent
              [] OTHER -> sent[i].url = ChatCompletions /\ sent[i].model = req[i].model

----------------------------------------------------------------------------
(* Claims about what a poller of server.js sees *)

\* C29: in server.js, for a task with a single execution, once the status
\* endpoint answers 'completed' it answers 'completed' after every step that is
\* not the expiry of the stored file.
C29_JsStatusMonotone ==
    [][server = "js" =>
        \A i \in Slots :
            (/\ Truthy(Key(i)) /\ SoleWriter(i) /\ SoleWriter(i)'
             /\ timers \subseteq timers'
             /\ StatusResponse(Key(i)).status = "completed") =>
                StatusResponse(Key(i))'.status = "completed"]_vars

\* C30: in server.js, whenever the status endpoint answers 'completed' the
\* answer carries an imageUrl: every stored record with success = true has one.
C30_JsCompletedHasImage ==
    server = "js" =>
        \A k \in Keys :
            /\ StatusResponse(k).status = "completed" =>
                  StatusResponse(k).imageUrl # NoMsg
            /\ (store[k].kind = "record" /\ store[k].success) =>
                  store[k].imageUrl # NoMsg

\* C25: a terminal outcome written by one execution is never overwritten by
\* another: no step of a different execution changes the entry that holds it.
C25_NoForeignOverwrite ==
    [][\A i \in Slots : \A k \in TerminalWrites(i) :
          (store[Key(i)] = wlog[i][k].rec /\ store'[Key(i)] # store[Key(i)]) =>
              \A j \in Slots \ {i} : wlog'[j] = wlog[j] /\ pc'[j] = pc[j]]_vars

----------------------------------------------------------------------------
(* Claims about extraction, both servers *)

\* the parsed response the extraction of a finished execution worked on
RawData(i) == IF server = "js" THEN data[i] ELSE TerminalRec(i).raw.data
\* the model tags whose response gets the chat-completion extraction
ChatExtracted(i) ==
    IF server = "js" THEN req[i].model = "sora_image"
    ELSE req[i].model \in {"sora", "sora_image"}

\* C23: a 2xx response whose only content is a top-level image_url field gives
\* the outcome Success with that value (server.js and main.go).
C23_TopLevelImageUrl ==
    \A i \in Slots :
        (Finished(i) /\ wlog[i] # <<>> /\ RawData(i).shape = "image_url") =>
            /\ TerminalRec(i).success
            /\ TerminalRec(i).imageUrl = RawData(i).content

\* the places of a text where a URL starts that runs up to the next terminator
\* (or the end of the text) and ends there in an image extension
UrlRuns(text) ==
    {p \in 1..Len(text) :
        /\ text[p] \in Schemes
        /\ Len(GoUrlFrom(text, p, GoTerminators)) > 2
        /\ text[p + Len(GoUrlFrom(text, p, GoTerminators)) - 1] \in ImageExts}
FirstUrlRun(text) == GoUrlFrom(text, SetMin(UrlRuns(text)), GoTerminators)

\* C26: the URL extracted from a chat-completion text without failure marker is
\* a piece of the text that starts with http(s)://, ends in an image extension
\* and holds no terminator; for the text 'here is your image
\* https://cdn.example.com/a.png more text' it is https://cdn.example.com/a.png;
\* and when the text holds a URL that runs up to a terminator and ends there in
\* an image extension, the outcome is Success with the first such URL.
C26_ChatUrlExtraction ==
    \A i \in Slots :
        (/\ Finished(i) /\ wlog[i] # <<>> /\ ChatExtracted(i)
         /\ RawData(i).shape = "chat"
         /\ ~Includes(RawData(i).content, <<FailMarker>>)) =>
            LET rec == TerminalRec(i)
                url == rec.imageUrl
            IN  /\ rec.success =>
                      /\ Includes(RawData(i).content, url)
                      /\ url[1] \in Schemes
                      /\ url[Len(url)] \in ImageExts
                      /\ \A p \in 1..Len(url) : url[p] \notin GoTerminators
                /\ RawData(i).content = UrlText =>
                      rec.success /\ url = DirectUrl
                /\ UrlRuns(RawData(i).content) # {} =>
                      /\ rec.success
                      /\ url = FirstUrlRun(RawData(i).content)

\* C27: for the same request and the same 2xx provider response, server.js
\* ends in the outcome main.go's extraction gives: both Success with the same
\* imageUrl, or both Failure.
C27_GoMatchesNode ==
    \A i \in Slots :
        (server = "js" /\ Finished(i) /\ wlog[i] # <<>> /\ TerminalRec(i).raw) =>
            LET go == GoExtractImageURL(JsonBody(data[i]), req[i].model)
            IN  /\ go.ok = TerminalRec(i).success
                /\ go.ok => go.url = TerminalRec(i).imageUrl

----------------------------------------------------------------------------
(* Claims about main.go's callback *)

\* C24: in main.go a task makes at most one callback request, only with a
\* callbackUrl and only after its terminal outcome was stored, reporting that
\* outcome; sending the callback and its end (success, error status, transport
\* failure, timeout) change no stored outcome, and the task does not run again.
C24_GoCallbackOnce ==
    /\ [](server = "go" =>
            \A i \in Slots :
                /\ Len(callbacks[i]) <= 1
                /\ callbacks[i] # <<>> =>
                      /\ req[i].callbackUrl # ""
                      /\ Cardinality(TerminalWrites(i)) = 1
                      /\ wlog[i][1].at <= callbacks[i][1].at
                      /\ callbacks[i][1].payload.status =
                            (IF wlog[i][1].rec.success THEN "completed" ELSE "failed"))
    /\ [][server = "go" =>
            \A i \in Slots :
                /\ callbacks'[i] # callbacks[i] => (store' = store /\ wlog' = wlog)
                /\ callbacks[i] # <<>> => pc'[i] \notin {"spawned", "calling", "notifying"}]_vars

\* a callback timed out, the task is over and its outcome is in the store
C24_Witness ==
    \E i \in Slots :
        /\ server = "go"
        /\ callbacks[i] # <<>>
        /\ callbacks[i][1].outcome = "timeout"
        /\ pc[i] = "done"
        /\ store[Key(i)] = wlog[i][1].rec

----------------------------------------------------------------------------
(* The provider request of processGeneration for every model tag and every  *)
(* way of giving input images: one accepted async request up to the call    *)

MaxImages == 2      \* entries of imageUrls

ImageRefs == {"https://in.example.com/a.png", "http://in.example.com/b.png"}
\* imageUrl: none, a URL, or base64 data
SingleImages == {"", "https://in.example.com/a.png", "QUJD"}
ImageLists == {NoList} \cup {List(l) : l \in SeqsUpTo(ImageRefs, MaxImages)}
BuildBodies ==
    [endpoint : {"async"}, apiKey : {TRUE}, taskId : {"t1"}, model : ModelTags,
     imageUrl : SingleImages, imageUrls : ImageLists, callbackUrl : {""}]

NextBuild ==
    \/ \E i \in Used, body \in BuildBodies : JsAsyncRequest(i, body)
    \/ \E i \in Used : JsStart(i)
    \/ \E i \in Used, body \in BuildBodies : GoAsyncRequest(i, body)
    \/ \E i \in Used : GoStart(i)

SpecBuild == (Init \/ InitGo) /\ [][NextBuild]_vars

----------------------------------------------------------------------------
(* Claims about the provider request *)

\* the input images of a request: the imageUrls, or the single imageUrl
InputImages(r) ==
    IF r.imageUrls.list # <<>> THEN r.imageUrls.list
    ELSE IF r.imageUrl # "" THEN <<r.imageUrl>> ELSE <<>>

\* C21: the Gemini request of server.js has the parts: the text prompt + ' ' +
\* imageSize, then one inline-data part for each input image, in order.
C21_JsGeminiParts ==
    \A i \in Slots :
        (server = "js" /\ sent[i] # NoSent /\ req[i].model = "gemini") =>
            LET items == sent[i].content.items
                images == InputImages(req[i])
            IN  /\ sent[i].content.shape = "parts"
                /\ Len(items) = 1 + Len(images)
                /\ items[1] = TextItem(PromptText)
                /\ \A k \in 2..Len(items) : items[k].type = "inline_data"

\* C22: a request sent to the chat-completion endpoint has as content the
\* array [text, one image_url per input image in order] when there is an input
\* image, and the string prompt + ' ' + imageSize when there is none.
C22_ChatContentShape ==
    \A i \in Slots :
        (sent[i] # NoSent /\ sent[i].url = ChatCompletions) =>
            LET images == InputImages(req[i]) IN
            IF images # <<>>
            THEN sent[i].content =
                    ArrayContent(<<TextItem(PromptText)>> \o
                                 [k \in 1..Len(images) |-> ImageUrlItem(images[k])])
            ELSE sent[i].content = StringContent(PromptText)

----------------------------------------------------------------------------
(* Claims about the order of the steps of one execution *)

WriteKinds(i) == [k \in 1..Len(wlog[i]) |-> wlog[i][k].kind]

\* C31: in server.js an execution of processGeneration stores the debug
\* snapshot before its terminal record and never after it, and once the
\* terminal record is stored the execution writes nothing more to the store
\* and calls no provider again.
C31_SnapshotBeforeTerminal ==
    [][\A i \in Slots :
          server = "js" =>
              /\ WriteKinds(i)' \in {<<>>, <<"snapshot">>, <<"terminal">>,
                                    <<"snapshot", "terminal">>}
              /\ TerminalWrites(i) # {} =>
                    /\ pc[i] = "done" /\ pc'[i] = "done"
                    /\ wlog'[i] = wlog[i]
                    /\ sent'[i] = sent[i]]_vars

C31_Witness ==
    \E i \in Slots :
        /\ server = "js"
        /\ WriteKinds(i) = <<"snapshot", "terminal">>
        /\ wlog[i][1].at < now
        /\ pc[i] = "done"

\* every attempt of the script fails: the retries are used up
InvokerFails(script) ==
    \A k \in 1..Len(script) :
        ~(script[k].kind = "http" /\ JsOk(script[k].status))

\* the execution goes on to store a failure without response data and has
\* written nothing before (server.js), or has stored exactly that (main.go)
FailureOnly(i) ==
    IF server = "js"
    THEN /\ pc'[i] = "termCall"
         /\ wlog'[i] = <<>>
         /\ pending'[i].kind = "record" /\ ~pending'[i].success
         /\ pending'[i].raw = FALSE
    ELSE /\ Len(wlog'[i]) = 1
         /\ ~wlog'[i][1].rec.success
         /\ wlog'[i][1].rec.raw = EmptyBody

\* C32: when every attempt of the invoker failed, processGeneration goes from
\* the call straight to the failure outcome: no debug snapshot, no extraction,
\* and the failure is the only store write of the execution.
C32_InvokerFailureSkipsExtraction ==
    [][\A i \in Slots, script \in UsedScripts :
          (/\ InvokerFails(script)
           /\ JsCallReturns(i, script) \/ GoCallReturns(i, script))
              => FailureOnly(i)]_vars

----------------------------------------------------------------------------
(* Claims about the error paths of processGeneration in server.js *)

\* the call ends with a 2xx answer whose body JSON.parse rejects
NonJsonAnswer(script) ==
    \E k \in 1..Len(script) :
        /\ script[k].kind = "http" /\ JsOk(script[k].status)
        /\ ~script[k].body.isJson
        /\ \A j \in 1..(k - 1) :
              ~(script[j].kind = "http" /\ JsOk(script[j].status))

\* the execution is at the storeResult call of a failure record
FailurePending(i) ==
    /\ pc[i] = "termCall"
    /\ pending[i].kind = "record" /\ ~pending[i].success
    /\ pending[i].error # NoMsg

----------------------------------------------------------------------------
(* Claims about the synchronous endpoint of main.go after its timeout *)

\* the answer of GET /api/status/:taskId for a stored result
GoOutcomeReply(k, rec) ==
    PollReply(k, 200, "", rec.success, rec.imageUrl, rec.error)

\* C34: in main.go the 504 of the synchronous endpoint does not cancel the
\* task: the timeout changes neither the execution nor the store, the call in
\* progress can still return, processGeneration then performs its terminal
\* write, and a status read for the taskId afterwards returns that outcome
\* (while the entry is kept and no other task uses the taskId).
C34_GoTimeoutKeepsTask ==
    /\ [](server = "go" =>
            \A i \in Slots :
                (http[i].status = 504 /\ pc[i] = "calling") =>
                    ENABLED (\E script \in UsedScripts : GoCallReturns(i, script)))
    /\ [][server = "go" =>
            \A i \in Slots :
                /\ (http[i] = NoHttp /\ http'[i].status = 504) =>
                      /\ pc' = pc /\ wlog' = wlog /\ store' = store
                      /\ activeTasks' = activeTasks /\ sent' = sent
                /\ (http[i].status = 504 /\ pc[i] = "calling" /\ pc'[i] # "calling") =>
                      /\ WriteKinds(i)' = <<"terminal">>
                      /\ store'[Key(i)] = wlog'[i][1].rec
                      /\ GoStatusReply(Key(i))' = GoOutcomeReply(Key(i), wlog'[i][1].rec)
                /\ (/\ http[i].status = 504 /\ wlog[i] # <<>> /\ SoleWriter(i)
                    /\ store[Key(i)].kind = "record"
                    /\ polled' # NoPoll /\ polled'.key = Key(i)) =>
                      polled' = GoOutcomeReply(Key(i), wlog[i][1].rec)]_vars

\* the call returned after the 504 and a status read found the outcome
C34_Witness ==
    \E i \in Slots :
        /\ server = "go"
        /\ http[i].status = 504
        /\ wlog[i] # <<>>
        /\ wlog[i][1].at > DefaultTimeoutMs
        /\ polled = GoOutcomeReply(Key(i), wlog[i][1].rec)

----------------------------------------------------------------------------
(* main.go with its scheduler: a goroutine that can run does run, timers    *)
(* fire, the provider and the callback receiver answer or time out          *)

\* the steps that need no client
GoProgress(S) ==
    \/ \E i \in S : GoStart(i)
    \/ \E i \in S, script \in UsedScripts : GoCallReturns(i, script)
    \/ \E i \in S : GoSendCallback(i)
    \/ \E i \in S, outcome \in CallbackOutcomes : GoCallbackEnds(i, outcome)
    \/ \E i \in S : GoSyncDone(i)
    \/ \E i \in S : GoSyncTimeout(i)
    \/ GoCleanup
    \/ GoTick
    \/ GoJump

NextGoFair == GoSteps(Used)

SpecGoFair == InitGo /\ [][NextGoFair]_vars /\ WF_vars(GoProgress(Used))

\* C36: the goroutine the synchronous endpoint of main.go starts for
\* processGeneration always terminates, also when the handler has returned on
\* its timeout: it does not stay blocked on the send to the done channel.
C36_GoGoroutineTerminates ==
    \A i \in Slots :
        (server = "go" /\ req[i].endpoint = "sync" /\ pc[i] = "spawned")
            ~> (pc[i] = "done")

----------------------------------------------------------------------------
(* Two concurrent async tasks of either server, with taskIds chosen by the  *)
(* clients                                                                   *)

FrameIds == TaskIds \cup {DotId}
JsFrameBodies ==
    [endpoint : {"async"}, apiKey : {TRUE}, taskId : FrameIds,
     model : {"sora_image"}, imageUrl : {""}, imageUrls : {NoList},
     callbackUrl : {""}]
GoFrameBodies == {b \in JsFrameBodies : b.taskId \in TaskIds}

NextFrame ==
    \/ \E i \in Slots, body \in JsFrameBodies : JsAsyncRequest(i, body)
    \/ \E i \in Slots : JsStart(i)
    \/ \E i \in Slots, script \in UsedScripts : JsCallReturns(i, script)
    \/ \E i \in Slots : JsWriteOpens(i)
    \/ \E i \in Slots : JsSnapshotWritten(i)
    \/ \E i \in Slots : JsTerminalWritten(i)
    \/ \E t \in timers : TimerFire(t)
    \/ Tick
    \/ Jump
    \/ \E i \in Slots, body \in GoFrameBodies : GoAsyncRequest(i, body)
    \/ \E i \in Slots : GoStart(i)
    \/ \E i \in Slots, script \in UsedScripts : GoCallReturns(i, script)
    \/ GoCleanup
    \/ GoTick
    \/ GoJump

SpecFrame == (Init \/ InitGo) /\ [][NextFrame]_vars

\* what a status read of taskId k returns
OutcomeRead(k) == IF server = "js" THEN StatusResponse(k) ELSE GoStatusReply(k)
\* the taskIds a client can read
ReadIds == IF server = "js" THEN FrameIds ELSE TaskIds

\* C35: a store write for taskId A and the deletion it schedules change only
\* A's record: a step changes what a status read of taskId B returns only when
\* it is a step of an execution for B, or the deletion of B's record, due
\* because a write for B is 30 minutes old (server.js) or B's record is older
\* than 10 minutes (main.go).
C35_WritesChangeOwnRecord ==
    [][\A B \in ReadIds :
          OutcomeRead(B)' # OutcomeRead(B) =>
              \/ \E i \in Slots : req[i].taskId = B /\ pc'[i] # pc[i]
              \/ /\ server = "js"
                 /\ timers' # timers
                 /\ \E i \in Slots : \E k \in 1..Len(wlog[i]) :
                       req[i].taskId = B /\ wlog[i][k].at + RetentionMs <= now
              \/ /\ server = "go"
                 /\ store[B].kind = "record" /\ GoTooOld(store[B])
                 /\ store'[B] = GoNone]_vars

----------------------------------------------------------------------------
(* Claims about model tags main.go passes through to the chat endpoint *)

\* C37: a task of main.go whose model tag is none of sora, sora_image and
\* gemini ends in the outcome Success whenever the provider answers 2xx with a
\* chat-completion message that holds a valid image URL and no failure marker.
C37_GoOtherTagSucceeds ==
    \A i \in Slots :
        (/\ server = "go" /\ Finished(i) /\ wlog[i] # <<>>
         /\ req[i].model \notin {"sora", "sora_image", "gemini"}
         /\ RawData(i).shape = "chat"
         /\ ~Includes(RawData(i).content, <<FailMarker>>)
         /\ UrlRuns(RawData(i).content) # {}) =>
            TerminalRec(i).success

----------------------------------------------------------------------------
(* Claims about the counter of running tasks *)

\* execution i is inside processGeneration: between the increment at its
\* start and the decrement at its end
InFlight(i) ==
    IF server = "js"
    THEN pc[i] \in {"calling", "snapCall", "snapW", "termCall", "termW"}
    ELSE pc[i] \in {"calling", "notifying", "awaiting"}

\* C39: activeTasks is always the number of executions of processGeneration
\* in flight (server.js and main.go): it is never negative and it is 0 when
\* no task is running.
C39_ActiveTasksCountsExecutions ==
    /\ activeTasks = Cardinality({i \in Slots : InFlight(i)})
    /\ activeTasks >= 0
    /\ (\A i \in Slots : ~InFlight(i)) => activeTasks = 0

\* one execution has ended while another is running
C39_Witness ==
    \E i, j \in Slots :
        /\ pc[i] = "done" /\ wlog[i] # <<>>
        /\ InFlight(j)
        /\ activeTasks = 1

----------------------------------------------------------------------------
(* The older server (src/unnamed/part_000, lines 225-718): its async        *)
(* endpoint does the whole generation inside the request handler, after the  *)
(* response, and keeps the results in a Map                                  *)

InitOld ==
    /\ call = NoCall
    /\ log = <<>>
    /\ server = "old"
    /\ callbacks = [i \in Slots |-> <<>>]
    /\ sent = [i \in Slots |-> NoSent]
    /\ polled = NoPoll
    /\ pc = [i \in Slots |-> "idle"]
    /\ req = [i \in Slots |-> NoReq]
    /\ data = [i \in Slots |-> NoData]
    /\ pending = [i \in Slots |-> Absent]
    /\ http = [i \in Slots |-> NoHttp]
    /\ store = [k \in Keys |-> Absent]
    /\ timers = {}
    /\ now = 0
    /\ activeTasks = 0
    /\ wlog = [i \in Slots |-> <<>>]

\* apiUrl and requestBody: the chat content holds the one imageUrl
OldOutbound(r, fetched) ==
    IF r.model = "sora_image"
    THEN Outbound(ChatCompletions, "chat", "sora_image",
                  IF r.imageUrl # ""
                  THEN ArrayContent(<<TextItem(PromptText), ImageUrlItem(r.imageUrl)>>)
                  ELSE StringContent(PromptText))
    ELSE Outbound(GenerateContent, "gemini", "", JsGeminiContent(r, fetched))

\* the record of the last storeResult call: the extraction is that of
\* server.js without the failure marker
OldTerminalRecord(model, d) ==
    IF JsImageUrl(model, d) # NoMsg
    THEN Record(TRUE, JsImageUrl(model, d), NoMsg, TRUE)
    ELSE Record(FALSE, NoMsg, JsNoImage, TRUE)

\* results.set(taskId, ...) and the timer of results.delete(taskId)
OldEntry(kind, rec) == [kind |-> kind, at |-> now, rec |-> rec, lost |-> FALSE]
OldTimer(k) == [key |-> k, deadline |-> now + RetentionMs]

\* a variant whose catch block can read taskId and goes on to answer
OldCatchAnswers(i, err) ==
    Reply(JsSyncErrorStatus(err), FALSE, NoId, NoMsg, err)
\* what the catch block leaves as the response of the request: its first
\* statement reads taskId, a const of the try block that is not in scope in
\* the catch block, so a ReferenceError leaves the handler before the store
\* and before res.status(...).json(...)
OldCatchReply(i, err) == http[i]

OldCatch(i, err) ==
    /\ http' = [http EXCEPT ![i] = OldCatchReply(i, err)]
    /\ pc' = [pc EXCEPT ![i] = "rejected"]

\* POST /api/generate/async up to the provider call
OldAsyncRequest(i, body) ==
    /\ server = "old"
    /\ Free(i)
    /\ body.endpoint = "async"
    /\ IF KeyMissing(body)
       THEN /\ http' = [http EXCEPT ![i] = Reply(401, FALSE, NoId, NoMsg, ApiKeyRequired)]
            /\ req' = [req EXCEPT ![i] = Received(body)]
            /\ pc' = [pc EXCEPT ![i] = "closed"]
            /\ UNCHANGED sent
       ELSE /\ http' = [http EXCEPT ![i] = AsyncAccepted(body.taskId)]
            /\ req' = [req EXCEPT ![i] = body]
            /\ pc' = [pc EXCEPT ![i] = "calling"]
            /\ \E fetched \in BOOLEAN :
                  sent' = [sent EXCEPT ![i] = OldOutbound(body, fetched)]
    /\ UNCHANGED <<data, pending, store, timers, now, activeTasks, wlog>>
    /\ UNCHANGED invokerVars
    /\ UNCHANGED callbacks
    /\ NoStatusRead

\* callAPIWithRetry returns or throws (the loop of server.js with other
\* messages), response.json(), the snapshot, the extraction and the last
\* storeResult; an exception on the way goes to the catch block
OldCallReturns(i, script) ==
    /\ server = "old"
    /\ pc[i] = "calling"
    /\ LET f == JsRun(Frame("js", JsDefaultRetries), script)
           d == f.result.body.data
           last == OldTerminalRecord(req[i].model, d)
       IN  IF f.state = "threw"
           THEN OldCatch(i, f.result.error) /\ UNCHANGED <<data, store, timers, wlog>>
           ELSE IF ~f.result.body.isJson
           THEN OldCatch(i, JsSyntaxError) /\ UNCHANGED <<data, store, timers, wlog>>
           ELSE /\ data' = [data EXCEPT ![i] = d]
                /\ timers' = timers \cup {OldTimer(Key(i))}
                /\ IF JsExtractThrows(d)
                   THEN /\ store' = [store EXCEPT ![Key(i)] = JsSnapshotRecord]
                        /\ wlog' = [wlog EXCEPT ![i] =
                                      Append(@, OldEntry("snapshot", JsSnapshotRecord))]
                        /\ OldCatch(i, JsTypeError)
                   ELSE /\ store' = [store EXCEPT ![Key(i)] = last]
                        /\ wlog' = [wlog EXCEPT ![i] =
                                      @ \o <<OldEntry("snapshot", JsSnapshotRecord),
                                             OldEntry("terminal", last)>>]
                        /\ pc' = [pc EXCEPT ![i] = "done"]
                        /\ UNCHANGED http
    /\ UNCHANGED <<req, pending, now, activeTasks, sent>>
    /\ UNCHANGED invokerVars
    /\ UNCHANGED callbacks
    /\ NoStatusRead

\* results.delete(taskId), 30 minutes after a storeResult
OldExpire(t) ==
    /\ server = "old"
    /\ t \in timers
    /\ t.deadline <= now
    /\ timers' = timers \ {t}
    /\ store' = [store EXCEPT ![t.key] = Absent]
    /\ UNCHANGED <<pc, req, data, pending, http, now, activeTasks, wlog, sent>>
    /\ UNCHANGED invokerVars
    /\ UNCHANGED callbacks
    /\ NoStatusRead

\* time passes up to the next timer
OldJump ==
    /\ server = "old"
    /\ ~TimerDue
    /\ timers # {}
    /\ now' = NextDeadline
    /\ UNCHANGED <<pc, req, data, pending, http, store, timers, activeTasks, wlog,
                   sent>>
    /\ UNCHANGED invokerVars
    /\ UNCHANGED callbacks
    /\ NoStatusRead

NextOld ==
    \/ \E i \in Slots, body \in RequestBodies : OldAsyncRequest(i, body)
    \/ \E i \in Slots, script \in UsedScripts : OldCallReturns(i, script)
    \/ \E t \in timers : OldExpire(t)
    \/ OldJump

\* the async endpoint of server.js and of the older server
NextAsync == JsSteps(Used) \/ NextOld

SpecAsync == (Init \/ InitOld) /\ [][NextAsync]_vars

\* C40: for every request to the async endpoint at most one HTTP response is
\* written, whatever the outcome of the background work: once the request is
\* answered no step writes a response for it again (server.js and the older
\* server).
C40_AsyncAnswersOnce ==
    [][\A i \in Slots :
          (req[i].endpoint = "async" /\ http[i] # NoHttp) =>
              http'[i] = http[i]]_vars

\* the background work of the older server failed after the snapshot; the
\* request has the one response it got on acceptance
C40_Witness ==
    \E i \in Slots :
        /\ server = "old"
        /\ pc[i] = "rejected"
        /\ WriteKinds(i) = <<"snapshot">>
        /\ http[i] = AsyncAccepted(Key(i))

----------------------------------------------------------------------------
(* server.js with its event loop, and a provider that may stop sending      *)
(* after the response headers                                                *)

\* the provider sends the headers of its answer and then no (or never all of
\* the) body: fetch resolves, clearTimeout(timeoutId) cancels the attempt's
\* abort timer, and response.text() (in callAPIWithRetry, for a non-2xx
\* status) or response.json() (in processGeneration) waits for the body with
\* no timer left that could end the wait
JsBodyStalls(i) ==
    /\ server = "js"
    /\ pc[i] = "calling"
    /\ pc' = [pc EXCEPT ![i] = "reading"]
    /\ UNCHANGED <<req, data, pending, http, store, timers, now, activeTasks, wlog>>
    /\ UNCHANGED invokerVars
    /\ UNCHANGED callbacks
    /\ NoStatusRead
    /\ UNCHANGED sent

\* the steps that need no client: callbacks of the event loop, timers, and the
\* completion of a fetch (by an answer, a transport error or the abort timer)
JsProgress(S) ==
    \/ \E i \in S : JsStart(i)
    \/ \E i \in S, script \in UsedScripts : JsCallReturns(i, script)
    \/ \E i \in S : JsWriteOpens(i)
    \/ \E i \in S : JsSnapshotWritten(i)
    \/ \E i \in S : JsTerminalWritten(i)
    \/ \E t \in timers : TimerFire(t)
    \/ Tick
    \/ Jump

NextJsFair == JsSteps(Used) \/ \E i \in Used : JsBodyStalls(i)

SpecJsFair == Init /\ [][NextJsFair]_vars /\ WF_vars(JsProgress(Used))

\* C38: in server.js every attempt of callAPIWithRetry and the body read that
\* follows it eventually complete, also when the provider sends the response
\* headers and then stalls the body: a task does not stay in the call or in
\* the read of the response for ever.
C38_JsCallAndReadComplete ==
    \A i \in Slots :
        (server = "js" /\ pc[i] \in {"calling", "reading"})
            ~> (pc[i] \notin {"calling", "reading"})

====
